---- MODULE Spec2Model ----
(***************************************************************************)
(* Verification model of the live segmentation engine                      *)
(* (apps/server/src/lib/live-segmenter.ts, transcription-utils.ts) and of  *)
(* the proxy session that drives it (apps/server/src/lib/gemini-live.ts,   *)
(* backoff.ts, rate-limit.ts).                                             *)
(*                                                                         *)
(* Strings are sequences of one-character strings.  A PCM16 buffer is the  *)
(* sequence of its samples; in the segmenter's queues each sample is       *)
(* represented by its arrival number within the turn, so a buffer's length *)
(* is its sample count (2 bytes per sample) and its content tells which    *)
(* received audio it carries.                                              *)
(*                                                                         *)
(* Left out: chunks of odd byte length (readInt16LE throws on the last     *)
(* byte and nothing catches it), terminal characters outside ASCII (they   *)
(* are treated as "." is), the diagnostics and debug logging.              *)
(***************************************************************************)
EXTENDS Integers, Sequences, FiniteSets, TLC

\* ------------------------------------------------------------------ bounds
MaxLen == 3             \* longest transcript fed to the segmenter
MaxChunkSamples == 2    \* longest audio chunk of one payload, in samples
MaxPayloads == 2        \* payloads handled over a session
MaxIdlePayloads == 3    \* the same, for the idle-commit variant
MaxTurns == 2           \* turns finalized over a session
MaxTicks == 2           \* clock advances over a session (idle-commit variant)
MaxUpstreamFrames == 2  \* frames received from the upstream over a proxy session
MaxUpstreamCloses == 2  \* upstream closes and failures over a proxy session
MaxClientFrames == 1    \* frames received from the client over a proxy session
MaxSessionTicks == 1    \* clock advances over a proxy session
MaxTurnFrames == 3      \* frames received over the turns of an open session
MaxTurnTicks == 3       \* clock advances over the turns of an open session
MaxGoAwayFrames == 2    \* frames received in the planned-reconnect scenario
MaxQueueFrames == 258   \* client frames in the pending-queue scenario
MaxConfigFrames == 3    \* client frames over a session without configuration
MaxSockets == 3          \* upstream sockets created over a session of several sockets
MaxSocketFrames == 1     \* frames received over a session of several sockets
MaxCaptionLen == 4       \* longest caption text given to guardCaption
MaxStoreCalls == 3       \* calls made on one TranscriptStore
MaxStoreTurn == 2        \* highest turn id of a transcript payload
MaxSentenceIndex == 1    \* highest sentence index of a transcript payload
MaxSegmentIds == 2       \* distinct segment ids of transcript payloads
MaxClientSegments == 2   \* segments whose audio reaches one LiveAudioSession
MaxClientTicks == 2      \* clock advances over one LiveAudioSession
MaxSupersedes == 2       \* supersedeAudio calls that advance the audio epoch
MaxLimiterCalls == 8     \* markRateLimited and markSuccess calls on one limiter
MaxLimiterTicks == 2     \* clock advances between the calls on one limiter
MaxConfigTicks == 3     \* clock advances over a session without configuration

\* ----------------------------------------------------- configuration values
sampleRate == 10          \* LiveSegmenterConfig.sampleRate (samples per second)
silenceThreshold == 1     \* LiveSegmenterConfig.silenceThreshold
silenceDurationMs == 200  \* LiveSegmenterConfig.silenceDurationMs
maxPendingSegments == 2   \* LiveSegmenterConfig.maxPendingSegments
NowStart == 5000          \* Date.now() when the session starts
TickMs == 700             \* one advance of the clock
SessionTickMs == 1800     \* one advance of the clock in a proxy session
TurnTickMs == 900         \* one advance of the clock within a turn
plannedReconnectMaxMs == 540000   \* env.plannedReconnectMaxMs
heartbeatIntervalMs == 30000      \* env.heartbeatIntervalMs

\* -------------------------------------------------------- program constants
MIN_SEGMENT_DURATION_MS == 300
PARTIAL_COMMIT_DELAY_MS == 1200
MIN_PARTIAL_TEXT_LENGTH == 8
RETRYABLE_CLOSE_CODES == {1006, 1011, 1012, 1013}
MAX_PENDING_QUEUE == 256
INITIAL_DELAY_MS == 500           \* createExponentialBackoff({ initialDelayMs })
MAX_DELAY_MS == 15000             \* createExponentialBackoff({ maxDelayMs })
MULTIPLIER == 2                   \* options.multiplier ?? 2
maxPenaltyLevel == 5              \* AdaptiveRateLimiter.maxPenaltyLevel
TurnFinalizationDelayMs == 1800   \* setTimeout(..., 1800)
TurnFinalizationMaxMs == 2100     \* maxDeadline = start + 2100
TurnFinalizationMinRemainingMs == 50

TERMINAL_CHARACTERS == {".", "?", "!"}
WhitespaceChars == {" "}
CJKChars == {"k"}

\* ------------------------------------------------------------ string helpers
Max(a, b) == IF a >= b THEN a ELSE b

Abs(x) == IF x < 0 THEN 0 - x ELSE x

RECURSIVE TrimStart(_)
TrimStart(s) ==
  IF s = <<>> THEN <<>>
  ELSE IF Head(s) \in WhitespaceChars THEN TrimStart(Tail(s)) ELSE s

RECURSIVE TrimEnd(_)
TrimEnd(s) ==
  IF s = <<>> THEN <<>>
  ELSE IF s[Len(s)] \in WhitespaceChars THEN TrimEnd(SubSeq(s, 1, Len(s) - 1)) ELSE s

\* String.prototype.trim
Trim(s) == TrimEnd(TrimStart(s))

\* all strings over alphabet A of length 0..n
RECURSIVE StringsUpTo(_, _)
StringsUpTo(A, n) ==
  IF n = 0 THEN {<<>>}
  ELSE LET shorter == StringsUpTo(A, n - 1)
       IN shorter \cup {Append(s, c) : s \in shorter, c \in A}

\* sum of the lengths of a sequence of strings
RECURSIVE SumLen(_)
SumLen(ss) == IF ss = <<>> THEN 0 ELSE Len(Head(ss)) + SumLen(Tail(ss))

\* -------------------------------------------------- transcription-utils.ts
\* parseSentences: the loop over the characters of source
RECURSIVE ParseLoop(_, _, _, _)
ParseLoop(source, i, buffer, complete) ==
  IF i > Len(source) THEN [complete |-> complete, partial |-> Trim(buffer)]
  ELSE LET b == Append(buffer, source[i])
       IN IF source[i] \in TERMINAL_CHARACTERS
          THEN LET trimmed == Trim(b)
               IN ParseLoop(source, i + 1, <<>>,
                            IF Len(trimmed) > 0 THEN Append(complete, trimmed) ELSE complete)
          ELSE ParseLoop(source, i + 1, b, complete)

parseSentences(source) == ParseLoop(source, 1, <<>>, <<>>)

\* the value null of `string | null`
Null == <<"null">>

computeCandidateScore(text) ==
  Len(text)
  + (IF Len(text) > 0 /\ text[Len(text)] \in TERMINAL_CHARACTERS THEN 10 ELSE 0)
  + (IF \E i \in 1..Len(text) : text[i] \in WhitespaceChars THEN 2 ELSE 0)
  + (IF \E i \in 1..Len(text) : text[i] \in CJKChars THEN 1 ELSE 0)

\* selectBestCandidate: best is Null until a candidate is taken; the score of
\* "no candidate" is Number.NEGATIVE_INFINITY, below every score
RECURSIVE SelectLoop(_, _, _, _, _)
SelectLoop(candidates, i, best, bestScore, seen) ==
  IF i > Len(candidates) THEN best
  ELSE LET trimmed == Trim(candidates[i])
       IN IF trimmed = <<>> \/ trimmed \in seen
          THEN SelectLoop(candidates, i + 1, best, bestScore, seen)
          ELSE LET score == computeCandidateScore(trimmed)
               IN IF best = Null \/ score > bestScore
                     \/ (score = bestScore /\ best # Null /\ Len(trimmed) > Len(best))
                  THEN SelectLoop(candidates, i + 1, trimmed, score, seen \cup {trimmed})
                  ELSE SelectLoop(candidates, i + 1, best, bestScore, seen \cup {trimmed})

selectBestCandidate(candidates) == SelectLoop(candidates, 1, Null, 0, {})

\* A payload is [isObject, direct, candidates, generationComplete]: direct is
\* serverContent.outputTranscription.text ("" when absent), candidates the
\* strings collectTextCandidates gathers from the rest of the payload.
extractTranscript(payload) ==
  IF ~payload.isObject THEN Null
  ELSE IF payload.direct # <<>> THEN payload.direct
  ELSE selectBestCandidate(payload.candidates)

isGenerationComplete(payload) ==
  IF ~payload.isObject THEN FALSE ELSE payload.generationComplete

\* ------------------------------------------------------- live-segmenter.ts
bytesToMillis(bytes, rate) ==
  \* Math.round((bytes / 2 / rate) * 1000): round half up
  (bytes * 1000 + rate) \div (2 * rate)

\* constructor: Math.max(1, Math.floor((silenceDurationMs / 1000) * sampleRate))
minSilenceSamples == Max(1, (silenceDurationMs * sampleRate) \div 1000)

\* Buffer.concat
RECURSIVE Concat(_)
Concat(buffers) == IF buffers = <<>> THEN <<>> ELSE Head(buffers) \o Concat(Tail(buffers))

VARIABLES
  pendingAudio,            \* Buffer[]: audio not yet cut into a segment
  segmentedAudioQueue,     \* Buffer[]: audio segments waiting for a sentence
  pendingTexts,            \* sentences waiting for audio; each entry carries its
                           \* text and `order`, its enqueue number within the turn
  currentTranscript,
  currentPartial,
  silenceRunSamples,
  committedCount,
  enqueuedCompleteCount,
  partialCommittedLength,
  partialLastUpdatedAt,
  turnId,
  segmentSequence,
  now,                     \* Date.now()
  idleCommit,              \* which enqueuePartialIfNeeded the build carries:
                           \* FALSE force-only, TRUE the 1.2 s idle commit
  emitted,                 \* history: every event returned so far, in order
  lastOp,                  \* history: the operation that produced this state
  textOrder,               \* history: sentences enqueued in this turn
  audioOrder,              \* history: samples received in this turn
  fed,                     \* history: the transcripts ingested in this turn
  payloads,                \* history: payloads handled (bounded by MaxPayloads)
  ticks,                   \* history: clock advances (bounded by MaxTicks)
  proxy,                   \* the GeminiLiveProxy session around the segmenter
  player,                  \* the client's Pcm24PlayerProcessor audio worklet
  client                   \* the client's LiveAudioSession, or one of its helpers

vars == <<pendingAudio, segmentedAudioQueue, pendingTexts, currentTranscript,
          currentPartial, silenceRunSamples, committedCount, enqueuedCompleteCount,
          partialCommittedLength, partialLastUpdatedAt, turnId, segmentSequence,
          now, idleCommit, emitted, lastOp, textOrder, audioOrder, fed,
          payloads, ticks, proxy, player, client>>

\* the segmenter's fields as one record, threaded through the methods below;
\* `events` is the events array of the running call
Self ==
  [pendingAudio |-> pendingAudio, segmentedAudioQueue |-> segmentedAudioQueue,
   pendingTexts |-> pendingTexts, currentTranscript |-> currentTranscript,
   currentPartial |-> currentPartial, silenceRunSamples |-> silenceRunSamples,
   committedCount |-> committedCount, enqueuedCompleteCount |-> enqueuedCompleteCount,
   partialCommittedLength |-> partialCommittedLength,
   partialLastUpdatedAt |-> partialLastUpdatedAt, turnId |-> turnId,
   segmentSequence |-> segmentSequence, textOrder |-> textOrder,
   audioOrder |-> audioOrder, events |-> <<>>]

\* ingestTranscript, lines 229-235: push the new complete sentences
RECURSIVE PushSentences(_, _, _)
PushSentences(s, complete, index) ==
  IF index > Len(complete) THEN s
  ELSE LET sentence == Trim(complete[index])
       IN IF Len(sentence) = 0
          THEN PushSentences(s, complete, index + 1)
          ELSE PushSentences(
                 [s EXCEPT !.pendingTexts =
                             Append(@, [text |-> sentence, order |-> s.textOrder + 1]),
                           !.textOrder = @ + 1],
                 complete, index + 1)

ingestTranscript(s, payload, t) ==
  LET transcript == extractTranscript(payload) IN
  IF transcript = Null THEN s
  ELSE
    LET previousPartial == s.currentPartial
        parsed == parseSentences(transcript)
        complete == parsed.complete
        partial == Trim(parsed.partial)
        s1 == [s EXCEPT !.currentTranscript = transcript,
                        !.currentPartial = partial,
                        !.partialLastUpdatedAt =
                          IF Len(partial) > s.partialCommittedLength /\ partial # previousPartial
                          THEN t ELSE @]
        s2 == IF s1.partialCommittedLength > Len(partial)
              THEN [s1 EXCEPT !.partialCommittedLength = Len(partial)]
              ELSE s1
        s3 == IF Len(complete) < s2.enqueuedCompleteCount
              THEN [s2 EXCEPT !.pendingTexts = <<>>,
                              !.enqueuedCompleteCount = Len(complete),
                              !.partialCommittedLength = 0]
              ELSE s2
    IN IF Len(complete) > s3.enqueuedCompleteCount
       THEN [PushSentences(s3, complete, s3.enqueuedCompleteCount + 1)
               EXCEPT !.partialCommittedLength = 0,
                      !.enqueuedCompleteCount = Len(complete)]
       ELSE s3

\* faulty variant: the new segment is put at the head of the queue
commitAudioSegment_Lifo(s) ==
  IF Len(s.pendingAudio) = 0 THEN s
  ELSE LET segmentBuffer == Concat(s.pendingAudio)
           s1 == [s EXCEPT !.pendingAudio = <<>>]
       IN IF Len(segmentBuffer) = 0 THEN s1
          ELSE LET queued == <<segmentBuffer>> \o s1.segmentedAudioQueue
               IN [s1 EXCEPT !.segmentedAudioQueue =
                     IF Len(queued) > maxPendingSegments
                     THEN SubSeq(queued, 1, maxPendingSegments) ELSE queued]

\* faulty variant: at the cap the segment that arrives is the one dropped
commitAudioSegment_DropsNewest(s) ==
  IF Len(s.pendingAudio) = 0 THEN s
  ELSE LET segmentBuffer == Concat(s.pendingAudio)
           s1 == [s EXCEPT !.pendingAudio = <<>>]
       IN IF Len(segmentBuffer) = 0 THEN s1
          ELSE LET queued == Append(s1.segmentedAudioQueue, segmentBuffer)
               IN [s1 EXCEPT !.segmentedAudioQueue =
                     IF Len(queued) > maxPendingSegments
                     THEN SubSeq(queued, 1, maxPendingSegments) ELSE queued]

\* commitAudioSegment, lines 301-314
commitAudioSegment(s) ==
  IF Len(s.pendingAudio) = 0 THEN s
  ELSE LET segmentBuffer == Concat(s.pendingAudio)
           s1 == [s EXCEPT !.pendingAudio = <<>>]
       IN IF Len(segmentBuffer) = 0 THEN s1
          ELSE LET queued == Append(s1.segmentedAudioQueue, segmentBuffer)
               IN [s1 EXCEPT !.segmentedAudioQueue =
                     IF Len(queued) > maxPendingSegments THEN Tail(queued) ELSE queued]

\* faulty variant: the partial is enqueued on the streaming path as well
enqueuePartialIfNeeded_Eager(s, force) ==
  LET partial == Trim(s.currentPartial) IN
  IF Len(partial) = 0
  THEN IF force
       THEN [s EXCEPT !.partialCommittedLength = 0, !.partialLastUpdatedAt = 0]
       ELSE s
  ELSE IF ~(Len(partial) > s.partialCommittedLength) THEN s
  ELSE LET s1 == commitAudioSegment(s)
       IN [s1 EXCEPT !.pendingTexts =
                       Append(@, [text |-> partial, order |-> s1.textOrder + 1]),
                     !.textOrder = @ + 1,
                     !.partialCommittedLength = Len(partial)]

\* enqueuePartialIfNeeded of lib/live-segmenter.ts (force-only)
enqueuePartialIfNeeded(s, force) ==
  LET partial == Trim(s.currentPartial) IN
  IF Len(partial) = 0
  THEN IF force
       THEN [s EXCEPT !.partialCommittedLength = 0, !.partialLastUpdatedAt = 0]
       ELSE s
  ELSE LET hasNewCharacters == Len(partial) > s.partialCommittedLength
       IN IF ~force THEN s
          ELSE IF ~hasNewCharacters THEN s
          ELSE LET s1 == commitAudioSegment(s)
               IN [s1 EXCEPT !.pendingTexts =
                               Append(@, [text |-> partial, order |-> s1.textOrder + 1]),
                             !.textOrder = @ + 1,
                             !.partialCommittedLength = Len(partial)]

\* enqueuePartialIfNeeded of the earlier source version (idle commit)
enqueuePartialIfNeededIdle(s, force, t) ==
  LET partial == Trim(s.currentPartial) IN
  IF Len(partial) = 0
  THEN IF force
       THEN [s EXCEPT !.partialCommittedLength = 0, !.partialLastUpdatedAt = 0]
       ELSE s
  ELSE LET hasNewCharacters == Len(partial) > s.partialCommittedLength
           timeSinceLastUpdate == t - s.partialLastUpdatedAt
           shouldForceByTimeout ==
             timeSinceLastUpdate > PARTIAL_COMMIT_DELAY_MS
             /\ Len(partial) >= MIN_PARTIAL_TEXT_LENGTH
       IN IF ~force /\ ~shouldForceByTimeout THEN s
          ELSE IF ~hasNewCharacters /\ ~shouldForceByTimeout THEN s
          ELSE LET s1 == commitAudioSegment(s)
               IN [s1 EXCEPT !.pendingTexts =
                               Append(@, [text |-> partial, order |-> s1.textOrder + 1]),
                             !.textOrder = @ + 1,
                             !.partialCommittedLength = Len(partial)]

EnqueuePartial(s, force, t) ==
  IF idleCommit THEN enqueuePartialIfNeededIdle(s, force, t)
  ELSE enqueuePartialIfNeeded(s, force)

\* ingestAudioChunk: samples is the chunk as 16-bit sample values, buffer the
\* same chunk as arrival numbers; offset and sliceStart count samples from 1
RECURSIVE AudioLoop(_, _, _, _, _)
AudioLoop(s, samples, buffer, offset, sliceStart) ==
  IF offset > Len(samples)
  THEN LET remainder == SubSeq(buffer, sliceStart, Len(buffer))
       IN IF Len(remainder) > 0
          THEN [s EXCEPT !.pendingAudio = Append(@, remainder)]
          ELSE s
  ELSE IF Abs(samples[offset]) <= silenceThreshold
       THEN LET run == s.silenceRunSamples + 1
            IN IF run >= minSilenceSamples
               THEN LET segmentPart == SubSeq(buffer, sliceStart, offset)
                        s1 == IF Len(segmentPart) > 0
                              THEN [s EXCEPT !.pendingAudio = Append(@, segmentPart)]
                              ELSE s
                        s2 == commitAudioSegment(s1)
                    IN AudioLoop([s2 EXCEPT !.silenceRunSamples = 0],
                                 samples, buffer, offset + 1, offset + 1)
               ELSE AudioLoop([s EXCEPT !.silenceRunSamples = run],
                              samples, buffer, offset + 1, sliceStart)
       ELSE AudioLoop([s EXCEPT !.silenceRunSamples = 0],
                      samples, buffer, offset + 1, sliceStart)

ingestAudioChunk(s, samples) ==
  IF Len(samples) = 0 THEN s
  ELSE LET buffer == [i \in 1..Len(samples) |-> s.audioOrder + i]
       IN AudioLoop([s EXCEPT !.audioOrder = @ + Len(samples)], samples, buffer, 1, 1)

RECURSIVE IngestChunks(_, _)
IngestChunks(s, audioChunks) ==
  IF audioChunks = <<>> THEN s
  ELSE IngestChunks(ingestAudioChunk(s, Head(audioChunks)), Tail(audioChunks))

\* faulty variant: short audio is never merged with the next queued segment
MergeLoop_NoMerge(s, audioBuffer) == [s |-> s, audioBuffer |-> audioBuffer]

\* drainPairing, lines 341-348: merge queued audio up to the duration floor
RECURSIVE MergeLoop(_, _)
MergeLoop(s, audioBuffer) ==
  IF Len(audioBuffer) > 0
     /\ bytesToMillis(2 * Len(audioBuffer), sampleRate) < MIN_SEGMENT_DURATION_MS
     /\ Len(s.segmentedAudioQueue) > 0
  THEN MergeLoop([s EXCEPT !.segmentedAudioQueue = Tail(@)],
                 audioBuffer \o Head(s.segmentedAudioQueue))
  ELSE [s |-> s, audioBuffer |-> audioBuffer]

\* faulty variant: index is taken from segmentSequence, which counts from 1
segmentCommitMessage_IndexFromSequence(s, entry, audioBuffer) ==
  [event |-> "SEGMENT_COMMIT",
   segmentId |-> <<s.turnId, s.segmentSequence>>,
   turnId |-> s.turnId,
   index |-> s.segmentSequence,
   text |-> entry.text,
   audio |-> audioBuffer,
   durationMs |-> bytesToMillis(2 * Len(audioBuffer), sampleRate),
   audioBytes |-> 2 * Len(audioBuffer),
   audioSamples |-> (2 * Len(audioBuffer)) \div 2,
   order |-> entry.order,
   queueLeft |-> Len(s.segmentedAudioQueue)]

\* drainPairing, lines 350-362: the SEGMENT_COMMIT message.  Besides the
\* message's fields it carries two history fields: order (the sentence's
\* enqueue number) and queueLeft (audio segments still queued when it was
\* emitted).  audio is the buffer itself instead of its base64; segmentId is
\* the pair it is built from, without the random suffix.
segmentCommitMessage(s, entry, audioBuffer) ==
  [event |-> "SEGMENT_COMMIT",
   segmentId |-> <<s.turnId, s.segmentSequence>>,
   turnId |-> s.turnId,
   index |-> s.committedCount,
   text |-> entry.text,
   audio |-> audioBuffer,
   durationMs |-> bytesToMillis(2 * Len(audioBuffer), sampleRate),
   audioBytes |-> 2 * Len(audioBuffer),
   audioSamples |-> (2 * Len(audioBuffer)) \div 2,
   order |-> entry.order,
   queueLeft |-> Len(s.segmentedAudioQueue)]

RECURSIVE drainPairing(_, _, _)
drainPairing(s, allowSilentAudio, t) ==
  IF Len(s.pendingTexts) = 0 THEN s
  ELSE
    LET entry == Head(s.pendingTexts) IN
    IF entry.text = <<>>
    THEN drainPairing([s EXCEPT !.pendingTexts = Tail(@)], allowSilentAudio, t)
    ELSE IF Len(s.segmentedAudioQueue) = 0 /\ ~allowSilentAudio THEN s
    ELSE
      LET first == IF Len(s.segmentedAudioQueue) = 0 THEN <<>>
                   ELSE Head(s.segmentedAudioQueue)
          s1 == [s EXCEPT !.segmentedAudioQueue = IF @ = <<>> THEN <<>> ELSE Tail(@),
                          !.pendingTexts = Tail(@),
                          !.segmentSequence = @ + 1]
          m == MergeLoop(s1, first)
          payload == segmentCommitMessage(m.s, entry, m.audioBuffer)
      IN drainPairing([m.s EXCEPT !.events = Append(@, payload),
                                  !.committedCount = @ + 1,
                                  !.partialLastUpdatedAt = t],
                      allowSilentAudio, t)

\* faulty variant: silent audio is allowed on every flush
flushPending_AlwaysSilent(s, force, t) ==
  drainPairing(IF force THEN commitAudioSegment(s) ELSE s, TRUE, t)

\* flushPending: the FlushSummary's events are s.events; emittedSegmentCount
\* is the growth of committedCount
flushPending(s, force, t) ==
  drainPairing(IF force THEN commitAudioSegment(s) ELSE s, force, t)

\* faulty variant: the turn counter is not advanced
prepareNextTurn_KeepsTurnId(s) ==
  [s EXCEPT !.committedCount = 0,
            !.segmentSequence = 0,
            !.pendingTexts = <<>>,
            !.segmentedAudioQueue = <<>>,
            !.pendingAudio = <<>>,
            !.currentTranscript = <<>>,
            !.currentPartial = <<>>,
            !.silenceRunSamples = 0,
            !.enqueuedCompleteCount = 0,
            !.partialCommittedLength = 0,
            !.partialLastUpdatedAt = 0,
            !.textOrder = 0,
            !.audioOrder = 0]

\* prepareNextTurn, lines 415-428; the history counters restart with the turn
prepareNextTurn(s) ==
  [s EXCEPT !.turnId = @ + 1,
            !.committedCount = 0,
            !.segmentSequence = 0,
            !.pendingTexts = <<>>,
            !.segmentedAudioQueue = <<>>,
            !.pendingAudio = <<>>,
            !.currentTranscript = <<>>,
            !.currentPartial = <<>>,
            !.silenceRunSamples = 0,
            !.enqueuedCompleteCount = 0,
            !.partialCommittedLength = 0,
            !.partialLastUpdatedAt = 0,
            !.textOrder = 0,
            !.audioOrder = 0]

\* faulty variant: every finalization emits a TURN_COMMIT
shouldEmitTurnCommit_Always(finalText, segmentCountForTurn, emittedSegmentCount) ==
  TRUE

\* finalizeTurnInternal, lines 378-379
shouldEmitTurnCommit(finalText, segmentCountForTurn, emittedSegmentCount) ==
  Len(finalText) > 0 \/ segmentCountForTurn > 0 \/ emittedSegmentCount > 0

\* faulty variant: segmentCount is read before the final flush
finalizeTurnInternal_StaleCount(s, force, t) ==
  LET s1 == EnqueuePartial(s, force, t)
      flush == flushPending(s1, force, t)
      finalText == Trim(flush.currentTranscript)
      segmentCountForTurn == s1.committedCount
      emittedSegmentCount == flush.committedCount - s1.committedCount
  IN IF ~shouldEmitTurnCommit(finalText, flush.committedCount, emittedSegmentCount)
     THEN prepareNextTurn(flush)
     ELSE LET turnCommit == [event |-> "TURN_COMMIT", turnId |-> flush.turnId,
                             finalText |-> finalText,
                             segmentCount |-> segmentCountForTurn]
          IN prepareNextTurn([flush EXCEPT !.events = Append(@, turnCommit)])

\* finalizeTurnInternal, lines 373-410
finalizeTurnInternal(s, force, t) ==
  LET s1 == EnqueuePartial(s, force, t)
      flush == flushPending(s1, force, t)
      finalText == Trim(flush.currentTranscript)
      segmentCountForTurn == flush.committedCount
      emittedSegmentCount == flush.committedCount - s1.committedCount
  IN IF ~shouldEmitTurnCommit(finalText, segmentCountForTurn, emittedSegmentCount)
     THEN prepareNextTurn(flush)
     ELSE LET turnCommit == [event |-> "TURN_COMMIT", turnId |-> flush.turnId,
                             finalText |-> finalText,
                             segmentCount |-> segmentCountForTurn]
          IN prepareNextTurn([flush EXCEPT !.events = Append(@, turnCommit)])

handleUpstreamPayload(s, payload, audioChunks, t) ==
  LET s1 == ingestTranscript(s, payload, t)
      s2 == EnqueuePartial(s1, FALSE, t)
      s3 == IngestChunks(s2, audioChunks)
  IN flushPending(s3, FALSE, t)

\* ------------------------------------------------------------------ inputs
Alphabet == {"a", ".", " "}

\* transcripts the upstream may send as serverContent.outputTranscription.text
Transcripts == StringsUpTo(Alphabet, MaxLen) \ {<<>>}

\* transcripts around MIN_PARTIAL_TEXT_LENGTH: seven letters followed by up
\* to MaxLen - 2 further characters, and two short ones
LongStem == <<"a", "a", "a", "a", "a", "a", "a">>

LongTranscripts ==
  {LongStem \o s : s \in StringsUpTo({"a", "."}, MaxLen - 2)} \cup {<<"a", ".">>, <<"a">>}

\* what collectTextCandidates may gather when there is no direct text
CandidateLists ==
  {<<>>, <<<<" ">>>>, <<<<"k">>, <<"a">>>>, <<<<"a", "a">>, <<".">>>>,
   <<<<" ", "a">>, <<"a">>, <<"a", "k">>>>}

ObjectPayload(direct, candidates, generationComplete) ==
  [isObject |-> TRUE, direct |-> direct, candidates |-> candidates,
   generationComplete |-> generationComplete]

\* handleUpstreamPayload(undefined, ...), the call made for a binary frame
UndefinedPayload ==
  [isObject |-> FALSE, direct |-> <<>>, candidates |-> <<>>, generationComplete |-> FALSE]

\* with a non-empty direct text the candidates are never looked at
Payloads ==
  {UndefinedPayload}
  \cup {ObjectPayload(d, <<>>, FALSE) : d \in Transcripts}
  \cup {ObjectPayload(<<>>, c, g) : c \in CandidateLists, g \in BOOLEAN}

LongPayloads ==
  {UndefinedPayload} \cup {ObjectPayload(d, <<>>, FALSE) : d \in LongTranscripts}

\* 16-bit sample values: one at or below silenceThreshold, one above it
SampleValues == {0, 0 - 8000}

Chunks == StringsUpTo(SampleValues, MaxChunkSamples) \ {<<>>}

\* the chunks of one payload: none, one, or two
ChunkLists ==
  {<<>>} \cup {<<c>> : c \in Chunks}
         \cup {<<<<0 - 8000>>, <<0>>>>}

\* ------------------------------------------------------------------- state
\* the segmenter on its own: no proxy session around it
NoProxy == <<>>

NoPlayer == <<>>

NoClient == <<>>

Init ==
  /\ pendingAudio = <<>>
  /\ segmentedAudioQueue = <<>>
  /\ pendingTexts = <<>>
  /\ currentTranscript = <<>>
  /\ currentPartial = <<>>
  /\ silenceRunSamples = 0
  /\ committedCount = 0
  /\ enqueuedCompleteCount = 0
  /\ partialCommittedLength = 0
  /\ partialLastUpdatedAt = 0
  /\ turnId = 1
  /\ segmentSequence = 0
  /\ now = NowStart
  /\ idleCommit = FALSE
  /\ emitted = <<>>
  /\ lastOp = "constructor"
  /\ textOrder = 0
  /\ audioOrder = 0
  /\ fed = <<>>
  /\ payloads = 0
  /\ ticks = 0
  /\ proxy = NoProxy
  /\ player = NoPlayer
  /\ client = NoClient

\* the fields of the segmenter after a call that left it as record s
Becomes(s) ==
  /\ pendingAudio' = s.pendingAudio
  /\ segmentedAudioQueue' = s.segmentedAudioQueue
  /\ pendingTexts' = s.pendingTexts
  /\ currentTranscript' = s.currentTranscript
  /\ currentPartial' = s.currentPartial
  /\ silenceRunSamples' = s.silenceRunSamples
  /\ committedCount' = s.committedCount
  /\ enqueuedCompleteCount' = s.enqueuedCompleteCount
  /\ partialCommittedLength' = s.partialCommittedLength
  /\ partialLastUpdatedAt' = s.partialLastUpdatedAt
  /\ turnId' = s.turnId
  /\ segmentSequence' = s.segmentSequence
  /\ textOrder' = s.textOrder
  /\ audioOrder' = s.audioOrder
  /\ emitted' = emitted \o s.events

HandleUpstreamPayload ==
  /\ payloads < (IF idleCommit THEN MaxIdlePayloads ELSE MaxPayloads)
  /\ \E payload \in (IF idleCommit THEN LongPayloads ELSE Payloads), audioChunks \in ChunkLists :
       /\ Becomes(handleUpstreamPayload(Self, payload, audioChunks, now))
       /\ fed' = IF extractTranscript(payload) = Null THEN fed
                 ELSE Append(fed, extractTranscript(payload))
  /\ payloads' = payloads + 1
  /\ lastOp' = "handleUpstreamPayload"
  /\ UNCHANGED <<now, idleCommit, ticks, proxy, player, client>>

\* finalizeTurn({ force })
FinalizeTurn ==
  /\ turnId <= MaxTurns
  /\ \E force \in BOOLEAN :
       /\ Becomes(finalizeTurnInternal(Self, force, now))
       /\ lastOp' = IF force THEN "finalizeTurn(force)" ELSE "finalizeTurn"
  /\ fed' = <<>>
  /\ UNCHANGED <<now, idleCommit, payloads, ticks, proxy, player, client>>

ForceCompleteTurn ==
  /\ turnId <= MaxTurns
  /\ Becomes(finalizeTurnInternal(Self, TRUE, now))
  /\ lastOp' = "forceCompleteTurn"
  /\ fed' = <<>>
  /\ UNCHANGED <<now, idleCommit, payloads, ticks, proxy, player, client>>

\* the clock advances between two calls
Tick ==
  /\ ticks < MaxTicks
  /\ now' = now + TickMs
  /\ ticks' = ticks + 1
  /\ UNCHANGED <<pendingAudio, segmentedAudioQueue, pendingTexts, currentTranscript,
                 currentPartial, silenceRunSamples, committedCount, enqueuedCompleteCount,
                 partialCommittedLength, partialLastUpdatedAt, turnId, segmentSequence,
                 idleCommit, emitted, lastOp, textOrder, audioOrder, fed,
                 payloads, proxy, player, client>>

Next == HandleUpstreamPayload \/ FinalizeTurn \/ ForceCompleteTurn

\* the segmenter of lib/live-segmenter.ts
Spec == Init /\ [][Next]_vars

InitIdle ==
  /\ pendingAudio = <<>>
  /\ segmentedAudioQueue = <<>>
  /\ pendingTexts = <<>>
  /\ currentTranscript = <<>>
  /\ currentPartial = <<>>
  /\ silenceRunSamples = 0
  /\ committedCount = 0
  /\ enqueuedCompleteCount = 0
  /\ partialCommittedLength = 0
  /\ partialLastUpdatedAt = 0
  /\ turnId = 1
  /\ segmentSequence = 0
  /\ now = NowStart
  /\ idleCommit = TRUE
  /\ emitted = <<>>
  /\ lastOp = "constructor"
  /\ textOrder = 0
  /\ audioOrder = 0
  /\ fed = <<>>
  /\ payloads = 0
  /\ ticks = 0
  /\ proxy = NoProxy
  /\ player = NoPlayer
  /\ client = NoClient

NextIdle == HandleUpstreamPayload \/ FinalizeTurn \/ ForceCompleteTurn \/ Tick

\* the segmenter with the idle-commit enqueuePartialIfNeeded
SpecIdle == InitIdle /\ [][NextIdle]_vars

TypeOK ==
  /\ turnId \in 1..(MaxTurns + 1)
  /\ committedCount \in Nat
  /\ Len(segmentedAudioQueue) <= maxPendingSegments

\* ============================================================ proxy session
\* GeminiLiveProxy of lib/gemini-live.ts: one client socket, at most one
\* upstream socket at a time, the segmenter above, four timers.
\*
\* The proxy's fields, the two sockets and the histories are the fields of
\* the record `proxy`; the methods below take the record (with the segmenter
\* in field seg) and return it as the method leaves it.  A close reason is a
\* sequence of one-character strings.  The retry and planned-reconnect
\* timers are armed or not and fire at any later moment; the turn
\* finalization timer carries its deadline and fires when the clock reaches
\* it.  Left out: the binary-out summaries, SEGMENT_DIAGNOSTICS frames, the
\* session snapshot carried in the setup frame, trace and console output.

Min(a, b) == IF a <= b THEN a ELSE b

NoTimer == 0 - 1   \* an undefined timer handle / an undefined start time

\* --- lib/backoff.ts
rawDelay(attempt) == Min(MAX_DELAY_MS, INITIAL_DELAY_MS * (MULTIPLIER ^ attempt))

\* randomJitter: value - 0.2 value + Math.random() * 0.4 value, with
\* Math.random() given in thousandths; setTimeout drops the fraction
randomJitter(value, random) == (value * 8) \div 10 + (random * 4 * value) \div 10000

\* --- shouldRetryClose
RECURSIVE Includes(_, _)
Includes(text, needle) ==
  IF Len(text) < Len(needle) THEN FALSE
  ELSE IF SubSeq(text, 1, Len(needle)) = needle THEN TRUE
  ELSE Includes(Tail(text), needle)

StartsWith(text, prefix) ==
  Len(text) >= Len(prefix) /\ SubSeq(text, 1, Len(prefix)) = prefix

\* variant: only the close code decides
shouldRetryClose_CodesOnly(code, reason) == code \in RETRYABLE_CLOSE_CODES

shouldRetryClose(code, reason) ==
  IF code \in RETRYABLE_CLOSE_CODES THEN TRUE
  ELSE IF code = 1000 THEN FALSE
  ELSE IF Includes(reason, <<"4", "2", "9">>) THEN TRUE
  ELSE IF StartsWith(reason, <<"5">>) THEN TRUE
  ELSE FALSE

\* --- lib/rate-limit.ts, AdaptiveRateLimiter
allowSend(p, t) == t >= p.penaltyExpiresAt

\* faulty variant: the level is not capped
markRateLimited_Unbounded(p, t) ==
  [p EXCEPT !.penaltyLevel = p.penaltyLevel + 1,
            !.penaltyExpiresAt = t + (p.penaltyLevel + 1) * 1000 + 500]

markRateLimited(p, t) ==
  LET level == Min(p.penaltyLevel + 1, maxPenaltyLevel)
  IN [p EXCEPT !.penaltyLevel = level,
               !.penaltyExpiresAt = t + level * 1000 + 500]

markSuccess(p) ==
  IF p.penaltyLevel = 0 THEN p
  ELSE LET level == Max(p.penaltyLevel - 1, 0)
       IN [p EXCEPT !.penaltyLevel = level,
                    !.penaltyExpiresAt = IF level = 0 THEN 0 ELSE @]

\* --- LiveSegmenter.reset, getPendingSnapshot, getCurrentTranscriptLength
reset(s) ==
  [s EXCEPT !.pendingAudio = <<>>, !.segmentedAudioQueue = <<>>,
            !.pendingTexts = <<>>, !.currentTranscript = <<>>,
            !.currentPartial = <<>>, !.silenceRunSamples = 0,
            !.committedCount = 0, !.enqueuedCompleteCount = 0,
            !.partialCommittedLength = 0, !.partialLastUpdatedAt = 0,
            !.segmentSequence = 0]

getPendingSnapshot(s) ==
  [pendingTextCount |-> Len(s.pendingTexts),
   pendingAudioBytes |-> 2 * (Len(s.pendingAudio) + SumLen(s.segmentedAudioQueue))]

getCurrentTranscriptLength(s) == Len(s.currentTranscript)

\* --- the sockets
UpstreamIsOpen(p) == p.upstream /\ p.readyState = "OPEN"

Frame(kind, code, body) == [frame |-> kind, code |-> code, body |-> body]

\* safeSendToClientBinary / Text / JSON: nothing unless the client is OPEN
safeSendToClient(p, frame) ==
  IF p.clientReadyState # "OPEN" THEN p
  ELSE [p EXCEPT !.clientOut = Append(@, frame)]

RECURSIVE SendAll(_, _, _, _)
SendAll(p, kind, bodies, index) ==
  IF index > Len(bodies) THEN p
  ELSE SendAll(safeSendToClient(p, Frame(kind, 0, bodies[index])), kind, bodies, index + 1)

\* variant: every close of the client reports a server fault
clientClose_ServerFault(p, code, reason) ==
  IF p.clientReadyState # "OPEN" THEN p
  ELSE [p EXCEPT !.clientReadyState = "CLOSING",
                 !.clientClose = [code |-> 1011, reason |-> reason]]

\* client.close(code, reason): starts the closing handshake of an open socket
clientClose(p, code, reason) ==
  IF p.clientReadyState # "OPEN" THEN p
  ELSE [p EXCEPT !.clientReadyState = "CLOSING",
                 !.clientClose = [code |-> code, reason |-> reason]]

sendToUpstream(p, item) ==
  IF ~UpstreamIsOpen(p) THEN p
  ELSE [p EXCEPT !.upstreamOut = Append(@, item)]

\* upstream.close(code, reason) on the open upstream socket
upstreamClose(p, code, reason) ==
  [p EXCEPT !.readyState = "CLOSING",
            !.upstreamClose = [code |-> code, reason |-> reason]]

\* --- timers
stopHeartbeat(p) == [p EXCEPT !.heartbeatTimer = FALSE]

startHeartbeat(p) ==
  IF heartbeatIntervalMs <= 0 THEN stopHeartbeat(p)
  ELSE [p EXCEPT !.heartbeatTimer = TRUE]

schedulePlannedReconnect(p) ==
  IF plannedReconnectMaxMs <= 0 THEN p
  ELSE [p EXCEPT !.plannedReconnectTimer = TRUE]

clearUpstreamTimers(p) ==
  stopHeartbeat([p EXCEPT !.plannedReconnectTimer = FALSE,
                          !.reconnectTimeout = FALSE,
                          !.retryDelay = 0])

clearTurnFinalizationTimer(p) ==
  [p EXCEPT !.turnFinalizationTimer = NoTimer,
            !.turnFinalizationExtended = FALSE,
            !.turnFinalizationStartMs = NoTimer,
            !.turnFinalizationTranscriptLength = 0,
            !.firstStartMs = NoTimer]

\* history field firstStartMs: when the pending timer was first started
scheduleTurnFinalization(p, t) ==
  LET first == IF p.turnFinalizationTimer # NoTimer THEN p.firstStartMs ELSE t
      p1 == clearTurnFinalizationTimer(p)
  IN [p1 EXCEPT !.turnFinalizationStartMs = t,
                !.turnFinalizationExtended = FALSE,
                !.turnFinalizationTranscriptLength = getCurrentTranscriptLength(p.seg),
                !.turnFinalizationTimer = t + TurnFinalizationDelayMs,
                !.firstStartMs = first]

maybeExtendTurnFinalization(p, hasNewSegments, t) ==
  IF p.turnFinalizationTimer = NoTimer \/ p.turnFinalizationExtended THEN p
  ELSE
    LET currentLength == getCurrentTranscriptLength(p.seg) IN
    IF ~hasNewSegments /\ currentLength <= p.turnFinalizationTranscriptLength THEN p
    ELSE
      LET start == IF p.turnFinalizationStartMs # NoTimer
                   THEN p.turnFinalizationStartMs ELSE t
          maxDeadline == start + TurnFinalizationMaxMs
          remaining == Max(maxDeadline - t, TurnFinalizationMinRemainingMs)
      IN [p EXCEPT !.turnFinalizationExtended = TRUE,
                   !.turnFinalizationTranscriptLength = currentLength,
                   !.turnFinalizationTimer = t + remaining]

\* --- connection management
\* variant: connects whatever the configuration
connectToUpstream_IgnoresConfig(p) ==
  IF p.closed THEN p
  ELSE [clearUpstreamTimers(p) EXCEPT !.reconnectRequested = FALSE,
                                      !.upstream = TRUE,
                                      !.readyState = "CONNECTING",
                                      !.connectAttempts = @ + 1]

connectToUpstream(p) ==
  IF p.closed THEN p
  ELSE IF ~p.configured
  THEN clientClose(safeSendToClient(p, Frame("upstream_not_configured", 0, <<>>)),
                   1011, "server_not_configured")
  ELSE [clearUpstreamTimers(p) EXCEPT !.reconnectRequested = FALSE,
                                      !.upstream = TRUE,
                                      !.readyState = "CONNECTING",
                                      !.connectAttempts = @ + 1]

\* backoff.next() and the timer it arms; retryDelay is the timer's delay
scheduleRetry(p, random) ==
  IF p.closed THEN p
  ELSE IF p.reconnectTimeout THEN p
  ELSE [p EXCEPT !.attempt = @ + 1,
                 !.reconnectTimeout = TRUE,
                 !.retryDelay = randomJitter(rawDelay(p.attempt), random)]

initiatePlannedReconnect(p) ==
  IF p.closed THEN p
  ELSE IF p.reconnectRequested THEN p
  ELSE LET p1 == [p EXCEPT !.reconnectRequested = TRUE, !.attempt = 0]
       IN IF UpstreamIsOpen(p1)
          THEN upstreamClose(p1, 1012, "planned_reconnect")
          ELSE connectToUpstream(p1)

\* variant: leaves the upstream timers running
shutdown_KeepsTimers(p) ==
  IF p.closed THEN p
  ELSE
    LET p1 == clearTurnFinalizationTimer([p EXCEPT !.closed = TRUE])
        p2 == [p1 EXCEPT !.sessionEnded = @ + 1, !.seg = reset(@)]
        p3 == IF UpstreamIsOpen(p2) THEN upstreamClose(p2, 1000, "client_gone") ELSE p2
    IN [p3 EXCEPT !.upstream = FALSE]

shutdown(p) ==
  IF p.closed THEN p
  ELSE
    LET p1 == clearTurnFinalizationTimer(clearUpstreamTimers([p EXCEPT !.closed = TRUE]))
        p2 == [p1 EXCEPT !.sessionEnded = @ + 1, !.seg = reset(@)]
        p3 == IF UpstreamIsOpen(p2) THEN upstreamClose(p2, 1000, "client_gone") ELSE p2
    IN [p3 EXCEPT !.upstream = FALSE]

\* --- client frames
\* faulty variant: the limiter is not consulted
forwardBinaryAudio_IgnoresLimiter(p, message, t) ==
  IF message.data = "empty" THEN p
  ELSE markSuccess(sendToUpstream(p, message))

\* a client frame is [n, isBinary, data]: its arrival number, the frame type
\* and what it carries ("utf8" text, "bytes" that are not UTF-8, or "empty")
forwardBinaryAudio(p, message, t) ==
  IF ~allowSend(p, t) THEN p
  ELSE IF message.data = "empty" THEN p
  ELSE markSuccess(sendToUpstream(p, message))

forwardTextMessage(p, message, t) ==
  IF message.data = "bytes" THEN forwardBinaryAudio(p, message, t)
  ELSE IF message.data = "empty" THEN p
  ELSE sendToUpstream(p, message)

\* variant: a full queue refuses the new frame
forwardClientMessage_DropsNewest(p, message, t) ==
  IF p.closed THEN p
  ELSE IF ~UpstreamIsOpen(p)
  THEN IF Len(p.pending) >= MAX_PENDING_QUEUE THEN p
       ELSE [p EXCEPT !.pending = Append(p.pending, message)]
  ELSE IF message.isBinary THEN forwardBinaryAudio(p, message, t)
  ELSE forwardTextMessage(p, message, t)

forwardClientMessage(p, message, t) ==
  IF p.closed THEN p
  ELSE IF ~UpstreamIsOpen(p)
  THEN LET kept == IF Len(p.pending) >= MAX_PENDING_QUEUE
                   THEN Tail(p.pending) ELSE p.pending
       IN [p EXCEPT !.pending = Append(kept, message)]
  ELSE IF message.isBinary THEN forwardBinaryAudio(p, message, t)
  ELSE forwardTextMessage(p, message, t)

\* flushPending's while loop: messages[from..to] are shifted off the queue and
\* forwarded one after the other, in order (the range is walked in halves to
\* keep the evaluation shallow)
RECURSIVE flushPending_Loop(_, _, _, _, _)
flushPending_Loop(p, messages, from, to, t) ==
  IF Len(p.pending) = 0 \/ from > to THEN p
  ELSE IF from = to
  THEN forwardClientMessage([p EXCEPT !.pending = SubSeq(messages, from + 1, Len(messages))],
                            messages[from], t)
  ELSE flushPending_Loop(
         flushPending_Loop(p, messages, from, (from + to) \div 2, t),
         messages, (from + to) \div 2 + 1, to, t)

flushPendingQueue(p, t) ==
  IF ~UpstreamIsOpen(p) THEN p ELSE flushPending_Loop(p, p.pending, 1, Len(p.pending), t)

sendSetup(p) == sendToUpstream(p, [n |-> 0, isBinary |-> FALSE, data |-> "setup"])

\* the upstream socket's "open" handler
onUpstreamOpen(p, t) ==
  LET p1 == [p EXCEPT !.attempt = 0]
      p2 == sendSetup(p1)
      p3 == flushPendingQueue(p2, t)
      p4 == schedulePlannedReconnect(p3)
  IN startHeartbeat(p4)

\* the upstream socket's "error" handler
onUpstreamError(p, rateLimited, random, t) ==
  LET p1 == IF rateLimited THEN markRateLimited(p, t) ELSE p
  IN IF p1.upstream /\ p1.readyState \in {"CLOSING", "CLOSED"}
     THEN scheduleRetry(p1, random)
     ELSE p1

\* --- segment events towards the client
\* the events of the segmenter call that took the segmenter from p.seg to s
EventsOfCall(p, s) == SubSeq(s.events, Len(p.seg.events) + 1, Len(s.events))

dispatchSegmentEvents(p, events) == SendAll(p, "event", events, 1)

processTurnFinalizationResult(p, events) ==
  dispatchSegmentEvents(clearTurnFinalizationTimer(p), events)

\* triggerTurnFinalization once finalizeTurn({ force: true }) has returned s
Finalized(p, s) ==
  IF Len(EventsOfCall(p, s)) = 0 THEN [p EXCEPT !.seg = s]
  ELSE processTurnFinalizationResult([p EXCEPT !.seg = s], EventsOfCall(p, s))

triggerTurnFinalization(p, t) ==
  Finalized([p EXCEPT !.turnFinalizationTimer = NoTimer,
                      !.turnFinalizationExtended = FALSE,
                      !.turnFinalizationStartMs = NoTimer,
                      !.turnFinalizationTranscriptLength = 0,
                      !.firstStartMs = NoTimer],
            finalizeTurnInternal(p.seg, TRUE, t))

\* variant: closes the client before telling it anything
ForcedClose_ClosesFirst(p, s, code, reason) ==
  shutdown(
    safeSendToClient(
      IF Len(EventsOfCall(p, s)) > 0
      THEN processTurnFinalizationResult(
             [clientClose(p, code, SubSeq(reason, 1, Min(Len(reason), 120)))
                EXCEPT !.forcedCloseDropped = @ + 1, !.seg = s], EventsOfCall(p, s))
      ELSE [clientClose(p, code, SubSeq(reason, 1, Min(Len(reason), 120))) EXCEPT !.seg = s],
      Frame("upstream_closed", code, reason)))

\* handleUpstreamClose once forceCompleteTurn() has returned s: the forced
\* events, upstream_closed, the client's close, shutdown
ForcedClose(p, s, code, reason) ==
  shutdown(
    clientClose(
      safeSendToClient(
        IF Len(EventsOfCall(p, s)) > 0
        THEN processTurnFinalizationResult(
               [p EXCEPT !.forcedCloseDropped = @ + 1, !.seg = s], EventsOfCall(p, s))
        ELSE [p EXCEPT !.seg = s],
        Frame("upstream_closed", code, reason)),
      code, SubSeq(reason, 1, Min(Len(reason), 120))))

\* handleUpstreamClose on a close that is neither planned nor retryable
TerminalClose(p, code, reason, t) ==
  ForcedClose(
    clearTurnFinalizationTimer(
      IF getPendingSnapshot(p.seg).pendingTextCount > 0
         \/ getPendingSnapshot(p.seg).pendingAudioBytes > 0
      THEN [p EXCEPT !.pendingAtCloseObserved = @ + 1] ELSE p),
    finalizeTurnInternal(p.seg, TRUE, t),
    code, reason)

\* handleUpstreamClose after clearUpstreamTimers()
Closing(p, code, reason, random, t) ==
  IF p.reconnectRequested THEN connectToUpstream(p)
  ELSE IF shouldRetryClose(code, reason) THEN scheduleRetry(p, random)
  ELSE TerminalClose(p, code, reason, t)

handleUpstreamClose(p, code, reason, random, t) ==
  IF p.closed THEN p
  ELSE Closing(clearUpstreamTimers(p), code, reason, random, t)

\* --- upstream payloads as JSON trees
\* a JSON value: a string, the literal true, an array, or an object with its
\* keys and their values in order; audio marks an object that
\* maybeExtractAudio recognises as an audio chunk
Str(s) == [type |-> "string", str |-> s, audio |-> FALSE, keys |-> <<>>, kids |-> <<>>]
True == [type |-> "true", str |-> "", audio |-> FALSE, keys |-> <<>>, kids |-> <<>>]
Arr(kids) == [type |-> "array", str |-> "", audio |-> FALSE, keys |-> <<>>, kids |-> kids]
Obj(keys, kids) == [type |-> "object", str |-> "", audio |-> FALSE, keys |-> keys, kids |-> kids]
AudioObj(keys, kids) == [type |-> "object", str |-> "", audio |-> TRUE, keys |-> keys, kids |-> kids]

toLowerCase(s) == IF s \in {"goAway", "GoAway", "GOAWAY"} THEN "goaway" ELSE s

isPlainObject(value) == value.type = "object"

maybeExtractAudio(value) == isPlainObject(value) /\ value.audio

\* entry.mediaChunks or entry.media_chunks is an array
HasMediaChunks(entry) ==
  /\ isPlainObject(entry)
  /\ \E i \in DOMAIN entry.keys :
       entry.keys[i] \in {"mediaChunks", "media_chunks"} /\ entry.kids[i].type = "array"

\* extractAudioChunks' walk, as far as goAwayDetected goes
RECURSIVE walk(_)
walk(value) ==
  IF value.type = "array" THEN \E i \in DOMAIN value.kids : walk(value.kids[i])
  ELSE IF ~isPlainObject(value)
  THEN value.type = "string" /\ toLowerCase(value.str) = "goaway"
  ELSE IF maybeExtractAudio(value) THEN FALSE
  ELSE \E i \in DOMAIN value.keys :
         LET key == value.keys[i]
             child == value.kids[i]
         IN \/ key = "goAway"
            \/ key = "event" /\ child.type = "string" /\ toLowerCase(child.str) = "goaway"
            \/ /\ ~maybeExtractAudio(child)
               /\ IF child.type = "array" /\ key \in {"parts", "media_chunks"}
                  THEN \E j \in DOMAIN child.kids :
                         /\ ~maybeExtractAudio(child.kids[j])
                         /\ ~HasMediaChunks(child.kids[j])
                         /\ walk(child.kids[j])
                  ELSE walk(child)

RECURSIVE detectTurnEndRecursive(_, _)
detectTurnEndRecursive(value, depth) ==
  IF depth > 8 THEN FALSE
  ELSE IF value.type = "array"
  THEN \E i \in DOMAIN value.kids : detectTurnEndRecursive(value.kids[i], depth + 1)
  ELSE IF ~isPlainObject(value) THEN FALSE
  ELSE
    \/ \E i \in DOMAIN value.keys :
         value.keys[i] \in {"serverComplete", "server_complete"} /\ value.kids[i].type = "true"
    \/ \E i \in DOMAIN value.keys :
         /\ value.keys[i] = "serverContent" /\ isPlainObject(value.kids[i])
         /\ \E j \in DOMAIN value.kids[i].keys :
              /\ value.kids[i].keys[j] = "candidates"
              /\ value.kids[i].kids[j].type = "array"
              /\ \E c \in DOMAIN value.kids[i].kids[j].kids :
                   LET cand == value.kids[i].kids[j].kids[c]
                   IN /\ isPlainObject(cand)
                      /\ \E k \in DOMAIN cand.keys :
                           /\ cand.keys[k] = "finishReason"
                           /\ cand.kids[k].type = "string"
                           /\ cand.kids[k].str = "STOP"
    \/ \E i \in DOMAIN value.kids : detectTurnEndRecursive(value.kids[i], depth + 1)

detectTurnEnd(value) == detectTurnEndRecursive(value, 0)

\* --- upstream frames
\* an upstream frame: kind "json" (text that parses, with the tree, what the
\* segmenter extracts from it and its audio chunks), "text" (does not parse),
\* "binary" (bytes that are not UTF-8), "empty"
JsonFrame(name, tree, payload, audioChunks) ==
  [name |-> name, kind |-> "json", tree |-> tree, payload |-> payload,
   audioChunks |-> audioChunks]

OtherFrame(name, kind, audioChunks) ==
  [name |-> name, kind |-> kind, tree |-> Str(""), payload |-> UndefinedPayload,
   audioChunks |-> audioChunks]

PlainTree == Obj(<<"serverContent">>, <<Obj(<<"outputTranscription">>, <<Str("x")>>)>>)

AudioTree ==
  Obj(<<"serverContent">>,
      <<Obj(<<"modelTurn">>,
            <<Obj(<<"parts">>, <<Arr(<<AudioObj(<<"inlineData">>, <<Str("x")>>)>>)>>)>>)>>)

AllFrames ==
  { JsonFrame("sentence", PlainTree, ObjectPayload(<<"a", ".">>, <<>>, FALSE), <<>>),
    JsonFrame("partial", PlainTree, ObjectPayload(<<"a">>, <<>>, FALSE), <<>>),
    JsonFrame("generationComplete", Obj(<<"serverContent">>, <<Obj(<<"generationComplete">>, <<True>>)>>),
              ObjectPayload(<<>>, <<>>, TRUE), <<>>),
    JsonFrame("audio", AudioTree, ObjectPayload(<<>>, <<>>, FALSE), <<<<0 - 8000, 0, 0>>>>),
    JsonFrame("serverComplete", Obj(<<"serverComplete">>, <<True>>),
              ObjectPayload(<<>>, <<>>, FALSE), <<>>),
    JsonFrame("goAway", Obj(<<"goAway">>, <<Obj(<<"timeLeft">>, <<Str("x")>>)>>),
              ObjectPayload(<<>>, <<>>, FALSE), <<>>),
    JsonFrame("goAwayString", Obj(<<"serverContent">>, <<Arr(<<Str("GoAway")>>)>>),
              ObjectPayload(<<>>, <<>>, FALSE), <<>>),
    JsonFrame("goAwayEvent", Arr(<<Obj(<<"event">>, <<Str("GOAWAY")>>)>>),
              ObjectPayload(<<>>, <<>>, FALSE), <<>>),
    JsonFrame("goAwayInAudio",
              Obj(<<"serverContent">>,
                  <<AudioObj(<<"inlineData", "goAway">>, <<Str("x"), Obj(<<>>, <<>>)>>)>>),
              ObjectPayload(<<>>, <<>>, FALSE), <<<<0 - 8000>>>>),
    JsonFrame("goAwayInParts",
              Obj(<<"parts">>,
                  <<Arr(<<Obj(<<"mediaChunks", "goAway">>, <<Arr(<<>>), Obj(<<>>, <<>>)>>)>>)>>),
              ObjectPayload(<<>>, <<>>, FALSE), <<>>),
    OtherFrame("notJson", "text", <<>>),
    OtherFrame("bytes", "binary", <<<<0 - 8000, 0>>>>),
    OtherFrame("empty", "empty", <<>>) }

FramesNamed(names) == {f \in AllFrames : f.name \in names}

\* the frames of a session's life cycle, of a turn, and those that carry goAway
UpstreamFrames == FramesNamed({"sentence", "generationComplete", "goAway", "bytes"})

TurnFrames ==
  FramesNamed({"sentence", "partial", "generationComplete", "audio", "serverComplete",
               "notJson", "empty"})

GoAwayFrames ==
  FramesNamed({"partial", "goAway", "goAwayString", "goAwayEvent", "goAwayInAudio",
               "goAwayInParts"})

\* --- upstream message handlers
HasEvent(events, kind) == \E i \in DOMAIN events : events[i].event = kind

\* processUpstreamText after dispatchSegmentEvents: lines 1003-1033
AfterDispatch(p, segmentEvents, message, t) ==
  IF (p.serverCompleteForced \/ p.serverCompleteSeen)
     /\ (HasEvent(segmentEvents, "SEGMENT_COMMIT") \/ HasEvent(segmentEvents, "TURN_COMMIT"))
  THEN [p EXCEPT !.thrown = TRUE]   \* line 1020 reads serverCompleteDetected
  ELSE IF isGenerationComplete(message.payload)
  THEN scheduleTurnFinalization(p, t)
  ELSE maybeExtendTurnFinalization(p, HasEvent(segmentEvents, "SEGMENT_COMMIT"), t)

\* processUpstreamText once segmenter.handleUpstreamPayload has returned
AfterSegmenter(p, segmentEvents, message, t) ==
  AfterDispatch(
    IF HasEvent(segmentEvents, "TURN_COMMIT")
    THEN clearTurnFinalizationTimer(dispatchSegmentEvents(p, segmentEvents))
    ELSE dispatchSegmentEvents(p, segmentEvents),
    segmentEvents, message, t)

\* processUpstreamText once segmenter.handleUpstreamPayload has returned s
Segmented(p, s, message, t) ==
  AfterSegmenter([p EXCEPT !.seg = s], EventsOfCall(p, s), message, t)

\* faulty variant: the chunks are relayed after the segmenter's events
RelayAndSegment_EventsFirst(p, message, t) ==
  SendAll(Segmented(p, handleUpstreamPayload(p.seg, message.payload, message.audioChunks, t),
                    message, t),
          "audio", message.audioChunks, 1)

\* processUpstreamText from the relay of the audio chunks on
RelayAndSegment(p, message, t) ==
  Segmented(SendAll(p, "audio", message.audioChunks, 1),
            handleUpstreamPayload(p.seg, message.payload, message.audioChunks, t),
            message, t)

\* processUpstreamText after detectTurnEnd
AfterTurnEnd(p, message, t) ==
  RelayAndSegment(IF walk(message.tree) THEN initiatePlannedReconnect(p) ELSE p, message, t)

processUpstreamText(p, message, t) ==
  IF message.kind = "empty" THEN p
  ELSE IF message.kind = "text" THEN safeSendToClient(p, Frame("text", 0, <<>>))
  ELSE AfterTurnEnd(IF detectTurnEnd(message.tree)
                    THEN [p EXCEPT !.serverCompleteSeen = TRUE] ELSE p,
                    message, t)

\* the raw audio frame once the segmenter has handled it and returned s
AfterRawAudio(p, s) == SendAll([p EXCEPT !.seg = s], "event", EventsOfCall(p, s), 1)

handleUpstreamMessage(p, message, t) ==
  IF message.kind = "binary"
  THEN AfterRawAudio(safeSendToClient(p, Frame("audio", 0, message.audioChunks[1])),
                     handleUpstreamPayload(p.seg, UndefinedPayload, message.audioChunks, t))
  ELSE processUpstreamText(p, message, t)

sendServerCompleteAckIfNeeded(p) ==
  IF ~p.serverCompleteForced \/ p.serverCompleteAckSent THEN p
  ELSE [safeSendToClient(safeSendToClient(p, Frame("setupComplete", 0, <<>>)),
                         Frame("serverCompleteAck", 0, <<>>))
          EXCEPT !.serverCompleteAckSent = TRUE, !.serverCompleteSeen = TRUE]

start(p) == connectToUpstream(sendServerCompleteAckIfNeeded([p EXCEPT !.started = TRUE]))

\* --- inputs of the session
RandomDraws == {0, 999}   \* Math.random(), in thousandths

CloseEvents ==
  { [code |-> 1000, reason |-> <<>>],
    [code |-> 1000, reason |-> <<"5">>],
    [code |-> 1008, reason |-> <<"p">>],
    [code |-> 1011, reason |-> <<>>],
    [code |-> 1012, reason |-> <<>>],
    [code |-> 1013, reason |-> <<>>],
    [code |-> 1006, reason |-> <<>>],
    [code |-> 4000, reason |-> <<"x", "4", "2", "9">>],
    [code |-> 4001, reason |-> <<"5", "0", "3">>],
    [code |-> 4002, reason |-> <<"x", "5">>] }

ClientFrameKinds ==
  { [isBinary |-> TRUE, data |-> "bytes"], [isBinary |-> FALSE, data |-> "utf8"],
    [isBinary |-> FALSE, data |-> "empty"] }

\* --- state
NoSegmenter == <<>>

\* lastClose: the close event the last handler was called with, if any;
\* closeRun: how many closes in a row have armed the retry timer
NoClose == [code |-> 0, reason |-> <<>>]

\* lastClient: the client frame the last handler was called with, if any
NoFrame == [n |-> 0, isBinary |-> FALSE, data |-> "none"]

ProxyInit(forced, configured) ==
  [serverCompleteForced |-> forced, configured |-> configured,
   seg |-> NoSegmenter,
   upstream |-> FALSE, readyState |-> "NONE",
   attempt |-> 0, penaltyLevel |-> 0, penaltyExpiresAt |-> 0,
   pending |-> <<>>,
   plannedReconnectTimer |-> FALSE, reconnectTimeout |-> FALSE, retryDelay |-> 0,
   heartbeatTimer |-> FALSE,
   turnFinalizationTimer |-> NoTimer, turnFinalizationExtended |-> FALSE,
   turnFinalizationStartMs |-> NoTimer, turnFinalizationTranscriptLength |-> 0,
   closed |-> FALSE, reconnectRequested |-> FALSE,
   serverCompleteAckSent |-> FALSE, serverCompleteSeen |-> FALSE,
   clientReadyState |-> "OPEN", clientClose |-> [code |-> 0, reason |-> <<>>],
   upstreamClose |-> [code |-> 0, reason |-> ""],
   started |-> FALSE, thrown |-> FALSE, crashed |-> FALSE,
   sessionEnded |-> 0, pendingAtCloseObserved |-> 0, forcedCloseDropped |-> 0,
   clientOut |-> <<>>, upstreamOut |-> <<>>, connectAttempts |-> 0,
   firstStartMs |-> NoTimer, clientFrames |-> 0, upstreamEvents |-> 0,
   lastClose |-> NoClose, closeRun |-> 0, lastClient |-> NoFrame]

P == [proxy EXCEPT !.seg = Self, !.lastClose = NoClose, !.lastClient = NoFrame]

\* the session after a handler that left it as record p
BecomesProxy(p, op, transcripts) ==
  /\ Becomes(p.seg)
  /\ \E fatal \in (IF p.thrown THEN BOOLEAN ELSE {FALSE}) :
       proxy' = [p EXCEPT !.seg = NoSegmenter, !.thrown = FALSE, !.crashed = fatal]
  /\ lastOp' = op
  /\ fed' = IF p.closed
               \/ (Len(p.seg.events) > 0 /\ p.seg.events[Len(p.seg.events)].event = "TURN_COMMIT")
            THEN <<>> ELSE fed \o transcripts
  /\ UNCHANGED <<now, idleCommit, ticks, player, client>>

Running == proxy.started /\ ~proxy.crashed

InitProxy(forcedChoices, configuredChoices) ==
  /\ pendingAudio = <<>>
  /\ segmentedAudioQueue = <<>>
  /\ pendingTexts = <<>>
  /\ currentTranscript = <<>>
  /\ currentPartial = <<>>
  /\ silenceRunSamples = 0
  /\ committedCount = 0
  /\ enqueuedCompleteCount = 0
  /\ partialCommittedLength = 0
  /\ partialLastUpdatedAt = 0
  /\ turnId = 1
  /\ segmentSequence = 0
  /\ now = NowStart
  /\ idleCommit = FALSE
  /\ emitted = <<>>
  /\ lastOp = "constructor"
  /\ textOrder = 0
  /\ audioOrder = 0
  /\ fed = <<>>
  /\ payloads = 0
  /\ ticks = 0
  /\ \E forced \in forcedChoices, configured \in configuredChoices :
       proxy = ProxyInit(forced, configured)
  /\ player = NoPlayer
  /\ client = NoClient

InitSession == InitProxy(BOOLEAN, BOOLEAN)

Start ==
  /\ ~proxy.started
  /\ BecomesProxy(start(P), "start", <<>>)
  /\ UNCHANGED payloads

\* the upstream handshake completes
UpstreamOpen ==
  /\ ~proxy.crashed
  /\ proxy.readyState = "CONNECTING"
  /\ BecomesProxy(onUpstreamOpen([P EXCEPT !.readyState = "OPEN"], now), "upstream.open", <<>>)
  /\ UNCHANGED payloads

\* the close handler has returned q: the history of closes
Closed(q, close) ==
  [q EXCEPT !.upstreamEvents = @ + 1, !.lastClose = close,
            !.closeRun = IF q.reconnectTimeout THEN @ + 1 ELSE 0]

\* the upstream socket fails: "error" with the socket closing, then "close"
\* with code 1006
UpstreamFail ==
  /\ ~proxy.crashed
  /\ proxy.readyState \in {"CONNECTING", "OPEN"}
  /\ proxy.upstreamEvents < MaxUpstreamCloses
  /\ \E rateLimited \in BOOLEAN, random \in RandomDraws :
       LET p1 == onUpstreamError([P EXCEPT !.readyState = "CLOSING"], rateLimited, random, now)
           p2 == handleUpstreamClose([p1 EXCEPT !.readyState = "CLOSED"], 1006, <<>>, random, now)
       IN BecomesProxy(Closed(p2, [code |-> 1006, reason |-> <<>>]), "upstream.fail", <<>>)
  /\ UNCHANGED payloads

\* the upstream socket closes: by the peer, or completing upstream.close()
UpstreamClose ==
  /\ ~proxy.crashed
  /\ proxy.readyState \in {"OPEN", "CLOSING"}
  /\ proxy.upstreamEvents < MaxUpstreamCloses
  /\ \E close \in CloseEvents, random \in RandomDraws :
       BecomesProxy(
         Closed(handleUpstreamClose([P EXCEPT !.readyState = "CLOSED"],
                                    close.code, close.reason, random, now), close),
         "upstream.close", <<>>)
  /\ UNCHANGED payloads

\* the upstream socket's "message" event
Receive(frames, limit) ==
  /\ ~proxy.crashed
  /\ proxy.readyState \in {"OPEN", "CLOSING"}
  /\ payloads < limit
  /\ \E message \in frames :
       BecomesProxy(handleUpstreamMessage(P, message, now), message.name,
                    IF message.kind = "json" /\ extractTranscript(message.payload) # Null
                    THEN <<extractTranscript(message.payload)>> ELSE <<>>)
  /\ payloads' = payloads + 1

UpstreamMessage == Receive(UpstreamFrames, MaxUpstreamFrames)

\* the client socket's "message" event
ClientSends(kinds, limit) ==
  /\ Running
  /\ proxy.clientReadyState \in {"OPEN", "CLOSING"}
  /\ proxy.clientFrames < limit
  /\ \E kind \in kinds :
       LET message == [n |-> proxy.clientFrames + 1, isBinary |-> kind.isBinary,
                       data |-> kind.data]
       IN BecomesProxy(
            forwardClientMessage([P EXCEPT !.clientFrames = @ + 1, !.lastClient = message],
                                 message, now),
            "client.message", <<>>)
  /\ UNCHANGED payloads

ClientMessage == ClientSends(ClientFrameKinds, MaxClientFrames)

\* the client socket's "close" (or "error") event
ClientClose ==
  /\ Running
  /\ proxy.clientReadyState # "CLOSED"
  /\ BecomesProxy(shutdown([P EXCEPT !.clientReadyState = "CLOSED"]), "client.close", <<>>)
  /\ UNCHANGED payloads

RetryTimer ==
  /\ ~proxy.crashed
  /\ proxy.reconnectTimeout
  /\ BecomesProxy(connectToUpstream([P EXCEPT !.reconnectTimeout = FALSE, !.retryDelay = 0]),
                  "timer.retry", <<>>)
  /\ UNCHANGED payloads

PlannedReconnectTimer ==
  /\ ~proxy.crashed
  /\ proxy.plannedReconnectTimer
  /\ BecomesProxy(initiatePlannedReconnect([P EXCEPT !.plannedReconnectTimer = FALSE]),
                  "timer.planned", <<>>)
  /\ UNCHANGED payloads

\* the heartbeat interval elapses: upstream.ping() if the upstream is open
HeartbeatTimer ==
  /\ ~proxy.crashed
  /\ proxy.heartbeatTimer
  /\ BecomesProxy(P, IF UpstreamIsOpen(P) THEN "timer.heartbeat.ping" ELSE "timer.heartbeat",
                  <<>>)
  /\ UNCHANGED payloads

TurnFinalizationTimer ==
  /\ ~proxy.crashed
  /\ proxy.turnFinalizationTimer # NoTimer
  /\ now >= proxy.turnFinalizationTimer
  /\ BecomesProxy(triggerTurnFinalization(P, now), "timer.finalization", <<>>)
  /\ UNCHANGED payloads

\* the clock advances, up to the next deadline of the finalization timer
Advance(limit, ms) ==
  /\ Running
  /\ ticks < limit
  /\ proxy.turnFinalizationTimer = NoTimer \/ now < proxy.turnFinalizationTimer
  /\ now' = IF proxy.turnFinalizationTimer = NoTimer THEN now + ms
            ELSE Min(now + ms, proxy.turnFinalizationTimer)
  /\ ticks' = ticks + 1
  /\ lastOp' = "tick"
  /\ UNCHANGED <<pendingAudio, segmentedAudioQueue, pendingTexts, currentTranscript,
                 currentPartial, silenceRunSamples, committedCount, enqueuedCompleteCount,
                 partialCommittedLength, partialLastUpdatedAt, turnId, segmentSequence,
                 idleCommit, emitted, textOrder, audioOrder, fed, payloads, proxy,
                 player, client>>

SessionTick == Advance(MaxSessionTicks, SessionTickMs)

NextSession ==
  \/ Start \/ UpstreamOpen \/ UpstreamFail \/ UpstreamClose \/ UpstreamMessage
  \/ ClientMessage \/ ClientClose \/ RetryTimer \/ PlannedReconnectTimer
  \/ HeartbeatTimer \/ TurnFinalizationTimer \/ SessionTick

\* one session of the proxy
SpecSession == InitSession /\ [][NextSession]_vars

\* --- a turn of an open session: frames, the finalization timer, the clock
TurnMessage == Receive(TurnFrames, MaxTurnFrames)

TurnTick == Advance(MaxTurnTicks, TurnTickMs)

NextTurn == Start \/ UpstreamOpen \/ TurnMessage \/ TurnFinalizationTimer \/ TurnTick

InitTurn == InitProxy(BOOLEAN, {TRUE})

SpecTurn == InitTurn /\ [][NextTurn]_vars

\* --- planned reconnects: goAway frames and the planned-reconnect timer
GoAwayMessage == Receive(GoAwayFrames, MaxGoAwayFrames)

NextGoAway ==
  \/ Start \/ UpstreamOpen \/ GoAwayMessage \/ PlannedReconnectTimer \/ UpstreamClose
  \/ UpstreamFail \/ RetryTimer \/ ClientClose

InitGoAway == InitProxy({FALSE}, {TRUE})

SpecGoAway == InitGoAway /\ [][NextGoAway]_vars

\* --- the pending queue: text frames arriving before and after the open
QueueMessage == ClientSends({[isBinary |-> FALSE, data |-> "utf8"]}, MaxQueueFrames)

NextQueue == Start \/ UpstreamOpen \/ QueueMessage

InitQueue == InitProxy({FALSE}, {TRUE})

SpecQueue == InitQueue /\ [][NextQueue]_vars

\* --- a session without upstream configuration; the client socket's "close"
\* event follows client.close(): the closing handshake ends, by the peer's
\* answer or by the socket's own close timeout
ConfigMessage == ClientSends(ClientFrameKinds, MaxConfigFrames)

ConfigTick == Advance(MaxConfigTicks, SessionTickMs)

NextConfig == Start \/ ConfigMessage \/ ClientClose \/ ConfigTick

InitConfig == InitProxy(BOOLEAN, {FALSE})

SpecConfig == InitConfig /\ [][NextConfig]_vars /\ WF_vars(ClientClose)

\* --------------------------------------------------------------- properties
IsSegment(e) == e.event = "SEGMENT_COMMIT"

IsTurnCommit(e) == e.event = "TURN_COMMIT"

\* the events emitted with turnId = T, in emission order
EventsOf(T) == SelectSeq(emitted, LAMBDA e : e.turnId = T)

SegmentsOf(T) == SelectSeq(emitted, LAMBDA e : IsSegment(e) /\ e.turnId = T)

TurnCommits == SelectSeq(emitted, IsTurnCommit)

\* the events the step from this state to the next one emits
NewEvents == SubSeq(emitted', Len(emitted) + 1, Len(emitted'))

NewSegments == SelectSeq(NewEvents, IsSegment)

RECURSIVE SumTextLen(_)
SumTextLen(events) ==
  IF events = <<>> THEN 0 ELSE Len(Head(events).text) + SumTextLen(Tail(events))

ForcedOps == {"finalizeTurn(force)", "forceCompleteTurn"}

\* C1: for every turn T the events emitted with turnId = T are SegmentCommits
\* with index 0, 1, 2, ... in emission order, followed by at most one
\* TurnCommit; nothing with turnId = T follows TurnCommit(T).
C1_TurnEventOrder ==
  \A T \in 1..turnId :
    LET ev == EventsOf(T) IN
    \A i \in 1..Len(ev) :
      IF IsSegment(ev[i]) THEN ev[i].index = i - 1 ELSE i = Len(ev)

C1_Witness ==
  \E T \in 1..turnId :
    LET ev == EventsOf(T) IN
    /\ Len(ev) >= 3
    /\ IsTurnCommit(ev[Len(ev)])
    /\ IsSegment(ev[1]) /\ IsSegment(ev[2])

\* C2: turnId strictly increases across successive TurnCommit events.
C2_TurnIdMonotone ==
  \A i, j \in 1..Len(TurnCommits) :
    i < j => TurnCommits[i].turnId < TurnCommits[j].turnId

C2_Witness == Len(TurnCommits) >= 2

\* C3: within a turn pairing is FIFO: sentences are emitted in the order they
\* were enqueued, each with audio received before the audio of every later
\* sentence and before all audio still held; no audio is reordered.
C3_FifoPairing ==
  /\ \A i, j \in 1..Len(emitted) :
       (i < j /\ IsSegment(emitted[i]) /\ IsSegment(emitted[j])
          /\ emitted[i].turnId = emitted[j].turnId)
       => /\ emitted[i].order < emitted[j].order
          /\ \A x \in 1..Len(emitted[i].audio), y \in 1..Len(emitted[j].audio) :
               emitted[i].audio[x] < emitted[j].audio[y]
  /\ \A i \in 1..Len(emitted) :
       IsSegment(emitted[i]) =>
         /\ \A x, y \in 1..Len(emitted[i].audio) :
              x < y => emitted[i].audio[x] < emitted[i].audio[y]
         /\ emitted[i].turnId = turnId =>
              /\ \A k \in 1..Len(pendingTexts) : emitted[i].order < pendingTexts[k].order
              /\ \A x \in 1..Len(emitted[i].audio) :
                   \A y \in 1..Len(Concat(segmentedAudioQueue \o pendingAudio)) :
                     emitted[i].audio[x] < Concat(segmentedAudioQueue \o pendingAudio)[y]

C3_Witness ==
  \E i, j \in 1..Len(emitted) :
    /\ i < j
    /\ IsSegment(emitted[i]) /\ IsSegment(emitted[j])
    /\ emitted[i].turnId = emitted[j].turnId
    /\ emitted[i].audioBytes > 0 /\ emitted[j].audioBytes > 0

\* durationMs = round((audioBytes / 2) / sampleRate * 1000), in integers
DurationRounded(e) ==
  /\ 2 * sampleRate * e.durationMs <= e.audioBytes * 1000 + sampleRate
  /\ e.audioBytes * 1000 + sampleRate < 2 * sampleRate * (e.durationMs + 1)

\* C4 as stated: every SegmentCommit has the rounded duration and either no
\* audio or at least 300 ms of it.
C4_Original ==
  \A i \in 1..Len(emitted) :
    IsSegment(emitted[i]) =>
      /\ DurationRounded(emitted[i])
      /\ emitted[i].audioBytes = 0 \/ emitted[i].durationMs >= MIN_SEGMENT_DURATION_MS

\* C4 amended: every SegmentCommit has the rounded duration and either no
\* audio, or at least 300 ms of it, or no audio segment was left in the queue
\* to merge when it was emitted.
C4_DurationFloor ==
  \A i \in 1..Len(emitted) :
    IsSegment(emitted[i]) =>
      /\ DurationRounded(emitted[i])
      /\ \/ emitted[i].audioBytes = 0
         \/ emitted[i].durationMs >= MIN_SEGMENT_DURATION_MS
         \/ emitted[i].queueLeft = 0

\* a segment below the floor beside one that merging lifted to the floor
C4_Witness ==
  /\ \E i \in 1..Len(emitted) :
       /\ IsSegment(emitted[i])
       /\ emitted[i].audioBytes > 0
       /\ emitted[i].durationMs < MIN_SEGMENT_DURATION_MS
       /\ emitted[i].queueLeft = 0
  /\ \E i \in 1..Len(emitted) :
       /\ IsSegment(emitted[i])
       /\ emitted[i].durationMs >= MIN_SEGMENT_DURATION_MS

\* C5: a SegmentCommit without audio is emitted only by forced finalization;
\* a payload (the streaming path) emits only segments with audio, and a
\* sentence it leaves in pendingTexts is one the audio queue had nothing for.
C5_SilentOnlyWhenForced ==
  [][ lastOp' \notin ForcedOps =>
        /\ \A i \in 1..Len(NewEvents) :
             IsSegment(NewEvents[i]) => NewEvents[i].audioBytes > 0
        /\ (lastOp' = "handleUpstreamPayload" /\ pendingTexts' # <<>>)
             => segmentedAudioQueue' = <<>> ]_vars

C5_Witness ==
  /\ \E i \in 1..Len(emitted) : IsSegment(emitted[i]) /\ emitted[i].audioBytes = 0
  /\ lastOp = "handleUpstreamPayload"
  /\ pendingTexts # <<>>
  /\ EventsOf(turnId) = <<>>

\* C6: finalization emits a TurnCommit iff finalText is non-empty, or
\* committedCount > 0, or the finalization itself emitted a segment; a turn
\* that received no transcript and no audio finalizes without any event.
C6_TurnCommitIff ==
  [][ turnId' = turnId + 1 =>
        /\ (Len(NewEvents) > 0 /\ IsTurnCommit(NewEvents[Len(NewEvents)]))
             <=> (Trim(currentTranscript) # <<>> \/ committedCount > 0
                    \/ Len(NewSegments) > 0)
        /\ (currentTranscript = <<>> /\ committedCount = 0 /\ pendingTexts = <<>>
              /\ pendingAudio = <<>> /\ segmentedAudioQueue = <<>>)
             => NewEvents = <<>> ]_vars

\* a payload without transcript or audio was finalized in silence after a
\* turn that was committed
C6_Witness ==
  /\ turnId = 3
  /\ payloads = 2
  /\ Len(emitted) > 0
  /\ EventsOf(2) = <<>>
  /\ IsTurnCommit(emitted[Len(emitted)])

IsPrefix(p, s) == Len(p) <= Len(s) /\ SubSeq(s, 1, Len(p)) = p

IsSuffix(p, s) == Len(p) <= Len(s) /\ SubSeq(s, Len(s) - Len(p) + 1, Len(s)) = p

\* every transcript update of the turn extended the one before it
OnlyGrew(transcripts) ==
  \A i \in 1..(Len(transcripts) - 1) : IsPrefix(transcripts[i], transcripts[i + 1])

\* the SegmentCommits of turn T in log whose text is text
SegmentsWithText(log, T, text) ==
  SelectSeq(log, LAMBDA e : IsSegment(e) /\ e.turnId = T /\ e.text = text)

\* C7 as stated: for every TurnCommit with segmentCount > 0 the text lengths
\* of the turn's SegmentCommits sum to at most the length of finalText.
C7_Original ==
  \A i \in 1..Len(emitted) :
    (IsTurnCommit(emitted[i]) /\ emitted[i].segmentCount > 0)
    => SumTextLen(SegmentsOf(emitted[i].turnId)) <= Len(emitted[i].finalText)

\* C7 amended: the same bound for every turn in which each transcript update
\* extended the transcript before it, partials being enqueued only when forced.
C7_TextLengthBound ==
  [][ (turnId' = turnId + 1 /\ OnlyGrew(fed) /\ Len(NewEvents) > 0
         /\ IsTurnCommit(NewEvents[Len(NewEvents)])
         /\ NewEvents[Len(NewEvents)].segmentCount > 0)
      => SumTextLen(SelectSeq(emitted', LAMBDA e : IsSegment(e) /\ e.turnId = turnId))
           <= Len(NewEvents[Len(NewEvents)].finalText) ]_vars

\* a committed turn of two growing transcripts whose segments are shorter
\* than its final text
C7_Witness ==
  /\ turnId = 2
  /\ payloads = 2
  /\ Len(emitted) = 3
  /\ IsTurnCommit(emitted[3])
  /\ emitted[3].segmentCount = 2
  /\ SumTextLen(SegmentsOf(1)) < Len(emitted[3].finalText)
  /\ emitted[2].text # emitted[3].finalText
  /\ emitted[1].audioBytes > 0

\* C8: after "ABC.DEF." then "ABC." in one turn, with "DEF." unpaired at the
\* shrink, the turn's forced completion leaves exactly one SegmentCommit for
\* "ABC." and none for "DEF.".  ("a." stands for "ABC.", "." for "DEF.")
C8_ShrinkKeepsFirstSentence ==
  [][ (lastOp' \in ForcedOps /\ turnId' = turnId + 1
         /\ fed = << <<"a", ".", ".">>, <<"a", ".">> >>
         /\ Len(SegmentsWithText(emitted, turnId, <<".">>)) = 0)
      => /\ Len(SegmentsWithText(emitted', turnId, <<"a", ".">>)) = 1
         /\ Len(SegmentsWithText(emitted', turnId, <<".">>)) = 0 ]_vars

\* C9: feeding again the transcript fed last, when its sentences and its
\* partial have been enqueued already, enqueues nothing.
C9_Idempotent ==
  [][ (lastOp' = "handleUpstreamPayload" /\ Len(fed) > 0
         /\ fed' = Append(fed, fed[Len(fed)])
         /\ partialCommittedLength = Len(currentPartial))
      => textOrder' = textOrder ]_vars

\* the outcome C10 describes, the partial's segment being the last one
C10_Outcome(exact) ==
  LET n == Len(NewEvents) IN
  /\ IF exact THEN n = 2 ELSE n >= 2
  /\ IsSegment(NewEvents[n - 1])
  /\ NewEvents[n - 1].text = currentPartial
  /\ IF exact THEN NewEvents[n - 1].audio = Concat(pendingAudio)
     ELSE IsSuffix(Concat(pendingAudio), NewEvents[n - 1].audio)
  /\ IsTurnCommit(NewEvents[n])
  /\ NewEvents[n].turnId = turnId
  /\ NewEvents[n].finalText = Trim(currentTranscript)
  /\ NewEvents[n].segmentCount =
       Len(SelectSeq(emitted', LAMBDA e : IsSegment(e) /\ e.turnId = turnId))

\* C10 as stated: forced completion of a turn with a non-empty partial and
\* pending audio emits a SegmentCommit with that partial and all the pending
\* audio, then the TurnCommit.
C10_Original ==
  [][ (lastOp' \in ForcedOps /\ turnId' = turnId + 1
         /\ currentPartial # <<>> /\ pendingAudio # <<>>)
      => C10_Outcome(FALSE) ]_vars

\* C10 amended: the same when no sentence and no audio segment is queued:
\* then exactly one SegmentCommit is emitted, carrying exactly the pending audio.
C10_ForcedPartial ==
  [][ (lastOp' \in ForcedOps /\ turnId' = turnId + 1
         /\ currentPartial # <<>> /\ pendingAudio # <<>>
         /\ pendingTexts = <<>> /\ segmentedAudioQueue = <<>>)
      => C10_Outcome(TRUE) ]_vars

C10_Witness ==
  /\ lastOp = "forceCompleteTurn"
  /\ turnId = 2
  /\ Len(emitted) = 2
  /\ IsSegment(emitted[1])
  /\ emitted[1].audioBytes > 0
  /\ emitted[1].queueLeft = 0
  /\ \A k \in 1..Len(emitted[1].text) : emitted[1].text[k] \notin TERMINAL_CHARACTERS
  /\ IsTurnCommit(emitted[2])
  /\ emitted[2].finalText = emitted[1].text
  /\ emitted[2].segmentCount = 1

\* =========================================================== proxy session
TimerPending == proxy.turnFinalizationTimer # NoTimer

\* C11: once a generation-complete signal has started the turn finalization
\* timer, the timer fires no later than 2.1 s after that first start: whatever
\* arrives while it is pending (a new segment, a longer transcript, another
\* generation-complete signal), its deadline never lies beyond the first
\* start plus 2100 ms.
C11_FiresWithinBound ==
  TimerPending =>
    proxy.turnFinalizationTimer <= proxy.firstStartMs + TurnFinalizationMaxMs

\* the segmenter holds text or audio that no event has carried yet
PendingState ==
  getPendingSnapshot(Self).pendingTextCount > 0
  \/ getPendingSnapshot(Self).pendingAudioBytes > 0

\* the step that ends the session
SessionEnds == ~proxy.closed /\ proxy'.closed

\* C12: whatever the segmenter still holds when the session ends is
\* force-completed into events and counted in the metrics, on a terminal
\* upstream close and on a client disconnect alike: the ending step emits
\* events and increments the forced-completion counter.
C12_PendingForcedAtEnd ==
  [][(SessionEnds /\ PendingState) =>
       /\ Len(emitted') > Len(emitted)
       /\ proxy'.forcedCloseDropped = proxy.forcedCloseDropped + 1]_vars

\* a terminal upstream close with text pending does force-complete it
C12_TerminalCloseWithText ==
  [][(SessionEnds /\ Len(pendingTexts) > 0 /\ lastOp' = "upstream.close") =>
       /\ Len(emitted') > Len(emitted)
       /\ proxy'.forcedCloseDropped = proxy.forcedCloseDropped + 1]_vars

\* the client frames that carry the given events, in order
EventFrames(events) == [i \in 1..Len(events) |-> Frame("event", 0, events[i])]

\* the step in which a terminal upstream close ends the session
TerminalCloseStep == lastOp' = "upstream.close" /\ SessionEnds

\* C13: a terminal upstream close sends the connected client the events of
\* the forced completion, then one upstream_closed frame with the close's
\* code and reason, then starts closing the client socket; once the session
\* is closed nothing more is sent to the client.
C13_TerminalCloseOrder ==
  [][/\ (TerminalCloseStep /\ proxy.clientReadyState = "OPEN") =>
          /\ \E close \in CloseEvents :
               /\ ~shouldRetryClose(close.code, close.reason)
               /\ proxy'.clientOut =
                    proxy.clientOut \o EventFrames(NewEvents)
                      \o <<Frame("upstream_closed", close.code, close.reason)>>
          /\ proxy'.clientReadyState = "CLOSING"
     /\ proxy.closed => proxy'.clientOut = proxy.clientOut]_vars

C13_Witness ==
  /\ lastOp = "upstream.close"
  /\ proxy.closed
  /\ proxy.forcedCloseDropped = 1
  /\ proxy.clientReadyState = "CLOSING"
  /\ Len(proxy.clientOut) >= 2
  /\ proxy.clientOut[Len(proxy.clientOut)].frame = "upstream_closed"
  /\ proxy.clientOut[Len(proxy.clientOut) - 1].frame = "event"

UpstreamCloseOps == {"upstream.close", "upstream.fail"}

\* a retryable close as the sentence words it
StatedRetryable(close) ==
  \/ close.code \in {1006, 1011, 1012, 1013}
  \/ Includes(close.reason, <<"4", "2", "9">>)
  \/ StartsWith(close.reason, <<"5">>)

\* a retryable close: as stated, except that a normal closure (1000) never is
Retryable(close) ==
  \/ close.code \in {1006, 1011, 1012, 1013}
  \/ /\ close.code # 1000
     /\ \/ Includes(close.reason, <<"4", "2", "9">>)
        \/ StartsWith(close.reason, <<"5">>)

\* the client is left alone: not closed, nothing sent, the session goes on
ClientUntouched ==
  /\ proxy'.clientReadyState = "OPEN"
  /\ proxy'.clientOut = proxy.clientOut
  /\ ~proxy'.closed

\* the reconnect waits for the backoff timer
RetryArmed ==
  /\ proxy'.reconnectTimeout
  /\ proxy'.retryDelay > 0
  /\ proxy'.connectAttempts = proxy.connectAttempts
  /\ proxy'.readyState = "CLOSED"

\* while the backoff timer is pending only its firing connects, once
OneAttemptPerTimer ==
  (proxy.reconnectTimeout /\ proxy'.connectAttempts # proxy.connectAttempts) =>
    /\ lastOp' = "timer.retry"
    /\ proxy'.connectAttempts = proxy.connectAttempts + 1
    /\ ~proxy'.reconnectTimeout

\* C15 (as stated): a close with a retryable code or reason while the client
\* is connected leaves the client alone and arms the backoff timer, whose
\* firing makes exactly one connect attempt.
C15_RetryAfterBackoff ==
  [][/\ (lastOp' \in UpstreamCloseOps /\ StatedRetryable(proxy'.lastClose)
         /\ ~proxy.closed /\ proxy.clientReadyState = "OPEN") =>
          ClientUntouched /\ RetryArmed
     /\ OneAttemptPerTimer]_vars

\* C15 (amended): the same for closes other than a normal closure (1000),
\* unless a planned reconnect was requested: then the close is followed by
\* one connect attempt at once, with no backoff timer.
C15_RetryOrPlanned ==
  [][/\ (lastOp' \in UpstreamCloseOps /\ Retryable(proxy'.lastClose)
         /\ ~proxy.closed /\ proxy.clientReadyState = "OPEN") =>
          /\ ClientUntouched
          /\ IF proxy.reconnectRequested
             THEN /\ proxy'.connectAttempts = proxy.connectAttempts + 1
                  /\ ~proxy'.reconnectTimeout
                  /\ proxy'.readyState = "CONNECTING"
             ELSE RetryArmed
     /\ OneAttemptPerTimer]_vars

\* a close retried for its reason alone has armed the backoff timer
C15_Witness ==
  /\ lastOp = "upstream.close"
  /\ proxy.lastClose = [code |-> 4000, reason |-> <<"x", "4", "2", "9">>]
  /\ proxy.reconnectTimeout
  /\ proxy.retryDelay > 0
  /\ proxy.clientReadyState = "OPEN"
  /\ proxy.connectAttempts = 1

\* the k-th delay of the sentence: 500 * 2^k ms, capped at 15000 ms
ExpectedDelay(k) == Min(15000, 500 * (2 ^ k))

\* within 20 % of the expected delay
WithinJitter(delay, expected) == 5 * delay >= 4 * expected /\ 5 * delay <= 6 * expected

\* C16: over closes in a row that arm the retry timer, the k-th delay
\* (k = 0, 1, 2, ...) is 500 * 2^k ms capped at 15000 ms, within 20 % of
\* jitter, and the timer's firing makes a new connect attempt.
C16_DelayDoubles ==
  [][/\ (lastOp' \in UpstreamCloseOps /\ proxy'.reconnectTimeout) =>
          WithinJitter(proxy'.retryDelay, ExpectedDelay(proxy.closeRun))
     /\ lastOp' = "timer.retry" =>
          proxy'.connectAttempts = proxy.connectAttempts + 1]_vars

\* a goAway anywhere in a parsed payload: a key goAway, or a string equal to
\* "goaway" whatever its case, at any depth
RECURSIVE GoAwayPresent(_)
GoAwayPresent(value) ==
  \/ value.type = "string" /\ toLowerCase(value.str) = "goaway"
  \/ \E i \in DOMAIN value.keys : value.keys[i] = "goAway"
  \/ \E i \in DOMAIN value.kids : GoAwayPresent(value.kids[i])

\* the upstream is being closed for a planned reconnect, the client left alone
PlannedCloseStarted ==
  /\ proxy'.readyState = "CLOSING"
  /\ proxy'.upstreamClose = [code |-> 1012, reason |-> "planned_reconnect"]
  /\ proxy'.reconnectRequested
  /\ proxy'.clientReadyState = proxy.clientReadyState
  /\ ~proxy'.closed
  /\ proxy'.forcedCloseDropped = proxy.forcedCloseDropped

\* the close of a planned reconnect completes: one connect attempt at once,
\* no backoff timer, nothing sent to the client, no event emitted
PlannedCloseCompleted ==
  (lastOp' \in UpstreamCloseOps /\ proxy.reconnectRequested /\ ~proxy.closed) =>
    /\ proxy'.connectAttempts = proxy.connectAttempts + 1
    /\ proxy'.readyState = "CONNECTING"
    /\ ~proxy'.reconnectTimeout
    /\ proxy'.clientReadyState = proxy.clientReadyState
    /\ proxy'.clientOut = proxy.clientOut
    /\ ~proxy'.closed
    /\ emitted' = emitted
    /\ proxy'.forcedCloseDropped = proxy.forcedCloseDropped

PlannedTimerFired ==
  (lastOp' = "timer.planned" /\ UpstreamIsOpen(proxy) /\ ~proxy.closed) => PlannedCloseStarted

\* C17: a payload with a goAway anywhere in it, or the planned-reconnect
\* timer, while the upstream is open, closes the upstream with 1012
\* "planned_reconnect"; when that close completes the session reconnects at
\* once, with no backoff, no close of the client, no upstream_closed and no
\* forced completion.
C17_PlannedReconnect ==
  [][/\ \A f \in GoAwayFrames :
          (lastOp' = f.name /\ GoAwayPresent(f.tree) /\ UpstreamIsOpen(proxy) /\ ~proxy.closed)
            => PlannedCloseStarted
     /\ PlannedTimerFired
     /\ PlannedCloseCompleted]_vars

\* the same for the payloads in which the walk does find the goAway
C17_DetectedGoAway ==
  [][/\ \A f \in GoAwayFrames :
          (lastOp' = f.name /\ walk(f.tree) /\ UpstreamIsOpen(proxy) /\ ~proxy.closed)
            => PlannedCloseStarted
     /\ PlannedTimerFired
     /\ PlannedCloseCompleted]_vars

\* the frames have consecutive arrival numbers and the last one is `last`
ArrivalsUpTo(frames, last) ==
  \A i \in DOMAIN frames : frames[i].n = last - Len(frames) + i

\* while the upstream is not open the queue holds the latest arrivals, at
\* most 256 of them, oldest first
QueueShape ==
  /\ Len(proxy.pending) <= 256
  /\ ~UpstreamIsOpen(proxy) =>
       /\ Len(proxy.pending) = Min(proxy.clientFrames, 256)
       /\ ArrivalsUpTo(proxy.pending, proxy.clientFrames)

\* what went upstream: the setup, then client frames by arrival, none
\* missing after the first
UpstreamShape ==
  Len(proxy.upstreamOut) > 0 =>
    /\ proxy.upstreamOut[1].data = "setup"
    /\ ArrivalsUpTo(Tail(proxy.upstreamOut), proxy.clientFrames)

NoTimerPending ==
  /\ ~proxy'.plannedReconnectTimer
  /\ ~proxy'.reconnectTimeout
  /\ ~proxy'.heartbeatTimer
  /\ proxy'.turnFinalizationTimer = NoTimer

\* C19: the client's disconnect cancels the planned-reconnect, retry,
\* heartbeat and turn-finalization timers, closes an open upstream with code
\* 1000, and from then on the session makes no upstream connect attempt.
C19_ClientDisconnect ==
  [][/\ (lastOp' = "client.close" /\ ~proxy.closed) =>
          /\ proxy'.closed
          /\ NoTimerPending
          /\ UpstreamIsOpen(proxy) =>
               /\ proxy'.readyState = "CLOSING"
               /\ proxy'.upstreamClose.code = 1000
     /\ proxy.closed => proxy'.connectAttempts = proxy.connectAttempts]_vars

\* the client left while the upstream was open, its timers armed
C19_Witness ==
  /\ lastOp = "client.close"
  /\ proxy.closed
  /\ proxy.readyState = "CLOSING"
  /\ proxy.upstreamClose = [code |-> 1000, reason |-> "client_gone"]
  /\ ~proxy.heartbeatTimer
  /\ ~proxy.plannedReconnectTimer
  /\ proxy.connectAttempts = 2

\* C20: without an upstream URL or API key, start sends the client the frame
\* {error:"upstream_not_configured"} and closes the client socket with 1011;
\* no upstream connection is ever opened, and the session ends closed.
C20_NotConfigured ==
  /\ [][(lastOp' = "start" /\ ~proxy.configured) =>
          /\ Len(proxy'.clientOut) > 0
          /\ proxy'.clientOut[Len(proxy'.clientOut)] = Frame("upstream_not_configured", 0, <<>>)
          /\ proxy'.clientReadyState = "CLOSING"
          /\ proxy'.clientClose.code = 1011]_vars
  /\ [](~proxy.configured =>
          /\ proxy.connectAttempts = 0
          /\ ~proxy.upstream
          /\ proxy.readyState = "NONE")
  /\ ((proxy.started /\ ~proxy.configured) ~> proxy.closed)

\* the unconfigured session has been refused and has ended
C20_Witness ==
  /\ ~proxy.configured
  /\ proxy.started
  /\ proxy.closed
  /\ proxy.clientClose = [code |-> 1011, reason |-> "server_not_configured"]
  /\ proxy.clientOut[Len(proxy.clientOut)] = Frame("upstream_not_configured", 0, <<>>)
  /\ proxy.connectAttempts = 0

\* --- what one upstream frame adds to the client's socket
SentToClient == SubSeq(proxy'.clientOut, Len(proxy.clientOut) + 1, Len(proxy'.clientOut))

IsAudioFrame(f) == f.frame = "audio"

IsSegmentCommitFrame(f) == f.frame = "event" /\ f.body.event = "SEGMENT_COMMIT"

AudioFramesOf(message) ==
  [i \in 1..Len(message.audioChunks) |-> Frame("audio", 0, message.audioChunks[i])]

\* the upstream frame message is handled with the client's socket open
Handles(message) == lastOp' = message.name /\ proxy.clientReadyState = "OPEN"

\* C21: what the client has received is only ever appended to; the binary
\* frames an upstream message adds are its audio chunks, in the order the
\* message carries them, so binary audio reaches the client in receipt order;
\* and every one of them is sent before any SEGMENT_COMMIT of that message.
C21_AudioBeforeSegments ==
  [][\A message \in AllFrames :
       Handles(message) =>
         /\ SubSeq(proxy'.clientOut, 1, Len(proxy.clientOut)) = proxy.clientOut
         /\ SelectSeq(SentToClient, IsAudioFrame) = AudioFramesOf(message)
         /\ \A i, j \in DOMAIN SentToClient :
              (IsSegmentCommitFrame(SentToClient[i]) /\ IsAudioFrame(SentToClient[j])) => j < i]_vars

\* a frame that carried audio has been handled, and the client holds its
\* chunk followed by the SEGMENT_COMMIT the segmenter derived from it
C21_Witness ==
  /\ lastOp \in {"audio", "bytes"}
  /\ \E i, j \in DOMAIN proxy.clientOut :
       /\ i < j
       /\ IsAudioFrame(proxy.clientOut[i])
       /\ IsSegmentCommitFrame(proxy.clientOut[j])
       /\ \A k \in DOMAIN proxy.clientOut : k > i => ~IsAudioFrame(proxy.clientOut[k])

\* C22: an upstream frame that parses as JSON, handled with the client's
\* socket open, adds to the client's socket a frame that carries the payload
\* itself with its audio stripped, after every audio frame of that message.
C22_SanitizedPayloadForwarded ==
  [][\A message \in AllFrames :
       (Handles(message) /\ message.kind = "json") =>
         \E i \in DOMAIN SentToClient :
           /\ ~IsAudioFrame(SentToClient[i])
           /\ SentToClient[i].frame \notin {"event", "setupComplete", "serverCompleteAck"}
           /\ \A j \in DOMAIN SentToClient : IsAudioFrame(SentToClient[j]) => j < i]_vars

\* --- the rate limiter and the client's audio
PenaltyActive == proxy.penaltyLevel > 0 /\ now < proxy.penaltyExpiresAt

\* a client frame that carries audio bytes has just been handled
HandlesAudio == lastOp' = "client.message" /\ proxy'.lastClient.isBinary /\ ~proxy.closed

\* a queued text frame that forwardTextMessage sends
IsTextMessage(m) == ~m.isBinary /\ m.data = "utf8"

\* C23 as stated: every binary client frame handled during the penalty window
\* is neither sent upstream nor queued, and one handled after it is sent.
C23_DroppedDuringPenalty ==
  [][/\ (HandlesAudio /\ PenaltyActive) =>
          /\ proxy'.upstreamOut = proxy.upstreamOut
          /\ proxy'.pending = proxy.pending
     /\ (HandlesAudio /\ ~PenaltyActive /\ UpstreamIsOpen(proxy)
         /\ proxy'.lastClient.data # "empty") =>
          proxy'.upstreamOut = Append(proxy.upstreamOut, proxy'.lastClient)]_vars

\* C23, amended: a binary client frame that reaches forwardBinaryAudio during
\* the penalty window -- on arrival with the upstream open, or from the
\* pending queue when the upstream opens -- is neither sent nor put back on
\* the queue; one that arrives while the upstream is not open is queued
\* whatever the limiter says; one that reaches forwardBinaryAudio once the
\* window has expired is sent and lowers the penalty level by one.
C23_DroppedWhenForwarded ==
  [][/\ (HandlesAudio /\ PenaltyActive /\ UpstreamIsOpen(proxy)) =>
          /\ proxy'.upstreamOut = proxy.upstreamOut
          /\ proxy'.pending = proxy.pending
          /\ proxy'.penaltyLevel = proxy.penaltyLevel
     /\ (HandlesAudio /\ ~UpstreamIsOpen(proxy)) =>
          /\ proxy'.upstreamOut = proxy.upstreamOut
          /\ Len(proxy'.pending) > 0
          /\ proxy'.pending[Len(proxy'.pending)] = proxy'.lastClient
     /\ (lastOp' = "upstream.open" /\ PenaltyActive /\ ~proxy.closed) =>
          /\ proxy'.pending = <<>>
          /\ proxy'.upstreamOut =
               Append(proxy.upstreamOut, [n |-> 0, isBinary |-> FALSE, data |-> "setup"])
                 \o SelectSeq(proxy.pending, IsTextMessage)
     /\ (HandlesAudio /\ ~PenaltyActive /\ UpstreamIsOpen(proxy)
         /\ proxy'.lastClient.data # "empty") =>
          /\ proxy'.upstreamOut = Append(proxy.upstreamOut, proxy'.lastClient)
          /\ proxy'.pending = proxy.pending
          /\ proxy'.penaltyLevel = Max(proxy.penaltyLevel - 1, 0)]_vars

\* an audio frame has arrived on the open upstream inside the penalty
\* window and has been dropped
C23_Witness ==
  /\ lastOp = "client.message"
  /\ proxy.lastClient = [n |-> 1, isBinary |-> TRUE, data |-> "bytes"]
  /\ PenaltyActive
  /\ UpstreamIsOpen(proxy)
  /\ proxy.pending = <<>>
  /\ proxy.upstreamOut = <<[n |-> 0, isBinary |-> FALSE, data |-> "setup"]>>

\* an audio frame that arrived inside the penalty window with the upstream
\* down is still queued
C23_QueuedDuringPenalty ==
  /\ lastOp = "client.message"
  /\ PenaltyActive
  /\ proxy.pending = <<[n |-> 1, isBinary |-> TRUE, data |-> "bytes"]>>

\* ============================================================ audio player
\* Pcm24PlayerProcessor, the client's playback worklet (the player source
\* listed as unnamed/part_002, lines 1535-2284).  The worklet handles one
\* port message or one process() call at a time.  Samples are kept by
\* provenance instead of value: the ring buffer is a sequence of runs
\* [epoch, push, count] (count samples of the push numbered `push`, which
\* carried `epoch`), so lengths, thresholds and flushes are exact while the
\* wave form is not looked at.  What the wave form decides is part of the
\* input: the zero-crossing offset of a chunk and the crossfade length
\* computeJoinStrategy derives from the RMS of the joint.  The clock
\* currentTime is counted in output frames and advances by one render quantum
\* per process() call.  Left out: the buffer trim of ensurePlaybackReadiness
\* (maxBufferSamples, 192000, exceeds the ring's capacity, so its overflow is
\* never positive), the fade-in gain, and the chunk_metrics, join_metrics,
\* diagnostic and context_info messages.

INPUT_SAMPLE_RATE == 24000
START_PLAYBACK_MS == 500
DEFAULT_BUFFER_SECONDS == 3
PENDING_TAIL_FLUSH_MS == 120
BASE_CROSSFADE_MS == 20
MIN_CROSSFADE_MS == 12
CROSSFADE_WARMUP_JOINS == 2
QUEUE_LOW_THRESHOLD_MS == 220
REARM_MIN_MS == 80

\* the globals of the AudioWorkletGlobalScope: the context's sample rate and
\* the length of the output channel handed to process()
contextSampleRate == 48000
OutputFrames == 128

MsToSamples(ms, rate) == (ms * rate) \div 1000

ZERO_CROSSING_SEARCH_SAMPLES == Max(1, MsToSamples(6, INPUT_SAMPLE_RATE))
BASE_CROSSFADE_SAMPLES == Max(1, MsToSamples(BASE_CROSSFADE_MS, INPUT_SAMPLE_RATE))
MIN_CROSSFADE_SAMPLES == Max(1, MsToSamples(MIN_CROSSFADE_MS, INPUT_SAMPLE_RATE))
rearmMinSamples == Max(1, MsToSamples(REARM_MIN_MS, INPUT_SAMPLE_RATE))
bufferCapacity == INPUT_SAMPLE_RATE * DEFAULT_BUFFER_SECONDS

NoTime == 0 - 1     \* null: no supersede yet, no pending tail
NoTail == [epoch |-> 0, push |-> 0, count |-> 0]

\* --- FloatRingBuffer, as runs of samples
RECURSIVE Available(_)
Available(ring) == IF ring = <<>> THEN 0 ELSE Head(ring).count + Available(Tail(ring))

RECURSIVE Consume(_, _)
Consume(ring, count) ==
  IF count <= 0 \/ ring = <<>> THEN ring
  ELSE IF Head(ring).count <= count THEN Consume(Tail(ring), count - Head(ring).count)
  ELSE <<[Head(ring) EXCEPT !.count = @ - count]>> \o Tail(ring)

\* push: a full buffer overwrites its oldest samples
RingPush(ring, run) ==
  LET joined == IF ring # <<>> /\ ring[Len(ring)].epoch = run.epoch
                   /\ ring[Len(ring)].push = run.push
                THEN [ring EXCEPT ![Len(ring)].count = @ + run.count]
                ELSE Append(ring, run)
  IN Consume(joined, Available(joined) - bufferCapacity)

\* the run that holds the sample peek(offset) reads
RECURSIVE Peek(_, _)
Peek(ring, offset) ==
  IF Len(ring) = 1 \/ offset < Head(ring).count THEN Head(ring)
  ELSE Peek(Tail(ring), offset - Head(ring).count)

\* --- Pcm24PlayerProcessor
PlayerInit ==
  [ring |-> <<>>, consumeFraction |-> 0, playbackArmed |-> FALSE,
   initialQueueMs |-> START_PLAYBACK_MS,
   minBufferSamples |-> Max(1, MsToSamples(START_PLAYBACK_MS, INPUT_SAMPLE_RATE)),
   currentEpoch |-> 0, totalDropped |-> 0, joinCount |-> 0, hasPlayed |-> FALSE,
   trimGraceAccepts |-> 0, startLeadMs |-> 0, pendingLeadSamples |-> 0,
   sentencePauseMs |-> 0, sentencePauseSamples |-> 0,
   armSupersedeQuietMs |-> 0, lastSupersedeTime |-> NoTime,
   pendingTail |-> NoTail, pendingTailTimestamp |-> NoTime,
   queueLowActive |-> FALSE, underrunActive |-> FALSE,
   currentTime |-> 0,
   \* histories
   posted |-> <<>>,         \* what the running handler has posted on the port
   rendered |-> {},         \* the runs the running process() call has read
   silentFrames |-> 0,      \* the zero frames the running process() call has written
   armedQueue |-> 0,        \* ringBuffer.available when playback was last armed
   armedHasPlayed |-> FALSE,\* hasPlayed when playback was last armed
   message |-> [type |-> "none"],  \* what the running handler was called with
   graceAccepts |-> 0,      \* stale pushes accepted since currentEpoch last changed
   gracePushes |-> {},      \* the pushes accepted although their epoch was behind
   superseded |-> {},       \* the pushes that were buffered when an epoch was applied
   pushes |-> 0, epochs |-> 0, flushes |-> 0, configs |-> 0, quanta |-> 0]

Post(w, type) == [w EXCEPT !.posted = Append(@, type)]

HasTail(w) == w.pendingTail.count > 0

\* faulty variant: the re-arm threshold also serves the first playback
requiredForArm_RearmOnly(w) == Min(w.minBufferSamples, rearmMinSamples)

requiredForArm(w) ==
  IF w.hasPlayed THEN Min(w.minBufferSamples, rearmMinSamples) ELSE w.minBufferSamples

\* sinceSupersedeMs < armSupersedeQuietMs, in frames of the context
InQuietWindow(w) ==
  /\ w.armSupersedeQuietMs > 0
  /\ w.lastSupersedeTime # NoTime
  /\ Max(0, w.currentTime - w.lastSupersedeTime) * 1000
       < w.armSupersedeQuietMs * contextSampleRate

\* availableMs <= queueLowThresholdMs
QueueLow(w) == Available(w.ring) * 1000 <= QUEUE_LOW_THRESHOLD_MS * INPUT_SAMPLE_RATE

\* ensurePlaybackReadiness, lines 2044-2061: queue_low
noteQueueLow(w) ==
  IF w.hasPlayed /\ w.playbackArmed /\ Available(w.ring) > 0 /\ QueueLow(w)
  THEN IF w.queueLowActive THEN w
       ELSE Post([w EXCEPT !.queueLowActive = TRUE], "queue_low")
  ELSE IF w.queueLowActive /\ ~QueueLow(w) THEN [w EXCEPT !.queueLowActive = FALSE]
  ELSE w

\* ensurePlaybackReadiness, lines 2021-2041: playback is armed
armFromQueue(w) ==
  LET lead == Max(0, MsToSamples(w.startLeadMs, contextSampleRate))
      w1 == [w EXCEPT !.playbackArmed = TRUE,
                      !.armedQueue = Available(w.ring),
                      !.armedHasPlayed = w.hasPlayed,
                      !.pendingLeadSamples = lead]
      w2 == IF w.hasPlayed /\ w.sentencePauseSamples > 0
            THEN Post([w1 EXCEPT !.pendingLeadSamples = @ + w.sentencePauseSamples],
                      "pause_inserted")
            ELSE w1
  IN Post(w2, "playback_armed")

ensurePlaybackReadiness(w) ==
  IF ~w.playbackArmed /\ Available(w.ring) >= requiredForArm(w)
  THEN IF InQuietWindow(w) THEN Post(w, "arm_blocked")
       ELSE noteQueueLow(armFromQueue(w))
  ELSE noteQueueLow(w)

enqueueSamples(w, run) ==
  IF run.count = 0 THEN Post(w, "enqueue_empty")
  ELSE ensurePlaybackReadiness([w EXCEPT !.ring = RingPush(@, run)])

\* computeJoinStrategy: the crossfade length; target is the length the RMS
\* difference of the joint asks for (0: below CROSSFADE_RMS_THRESHOLD)
computeJoinStrategy(w, target, maxSamples, tailLength, headLength) ==
  IF w.joinCount < CROSSFADE_WARMUP_JOINS THEN 0
  ELSE IF target = 0 THEN 0
  ELSE Min(Max(MIN_CROSSFADE_SAMPLES, target), Min(maxSamples, Min(tailLength, headLength)))

\* buildCrossfade: a blended sample carries the tail's audio and the chunk's;
\* it is counted with the older of the two pushes it was made from
Blend(tail, chunk) ==
  IF tail.epoch < chunk.epoch THEN [tail EXCEPT !.count = chunk.count] ELSE chunk

\* processChunk, lines 1898-1920: the pending tail meets the chunk
joinTail(w, chunk, length) ==
  LET w1 == IF length > 0
            THEN enqueueSamples(w, [Blend(w.pendingTail, chunk) EXCEPT !.count = length])
            ELSE enqueueSamples(w, w.pendingTail)
  IN [w1 EXCEPT !.joinCount = @ + 1, !.pendingTail = NoTail,
                !.pendingTailTimestamp = NoTime]

\* processChunk, lines 1922-1942: the body is queued, the tail is kept back
keepTail(w, chunk, offset) ==
  LET remaining == chunk.count - offset
      tailLength == Min(BASE_CROSSFADE_SAMPLES, remaining)
      bodyLength == remaining - tailLength
      w1 == IF bodyLength > 0 THEN enqueueSamples(w, [chunk EXCEPT !.count = bodyLength])
            ELSE w
  IN IF remaining <= 0 THEN w
     ELSE [w1 EXCEPT !.pendingTail = [chunk EXCEPT !.count = tailLength],
                     !.pendingTailTimestamp = w.currentTime]

joinLength(w, chunk, target) ==
  IF HasTail(w)
  THEN computeJoinStrategy(w, target,
                           Min(w.pendingTail.count, Min(BASE_CROSSFADE_SAMPLES, chunk.count)),
                           w.pendingTail.count, chunk.count)
  ELSE 0

processChunk(w, chunk, target) ==
  IF chunk.count = 0 THEN Post(w, "enqueue_empty")
  ELSE keepTail(IF HasTail(w) THEN joinTail(w, chunk, joinLength(w, chunk, target)) ELSE w,
                chunk, joinLength(w, chunk, target))

\* enqueuePcmBuffer: `samples` 16-bit samples whose first zero crossing is at
\* `offset` (0: none within the search window)
enqueuePcmBuffer(w, message, epoch) ==
  IF message.samples = 0 THEN Post(w, "enqueue_empty")
  ELSE processChunk(w, [epoch |-> epoch, push |-> w.pushes,
                        count |-> message.samples - message.offset], message.target)

\* faulty variant: the pending tail survives
flush_KeepsTail(w) ==
  [w EXCEPT !.ring = <<>>, !.consumeFraction = 0, !.playbackArmed = FALSE,
            !.hasPlayed = FALSE, !.pendingLeadSamples = 0, !.joinCount = 0,
            !.queueLowActive = FALSE, !.underrunActive = FALSE]

flush(w) ==
  [w EXCEPT !.ring = <<>>, !.consumeFraction = 0, !.playbackArmed = FALSE,
            !.hasPlayed = FALSE, !.pendingLeadSamples = 0, !.pendingTail = NoTail,
            !.pendingTailTimestamp = NoTime, !.joinCount = 0,
            !.queueLowActive = FALSE, !.underrunActive = FALSE]

\* the pushes that have samples in the ring buffer or in the pending tail
Buffered(w) ==
  {w.ring[i].push : i \in DOMAIN w.ring} \cup (IF HasTail(w) THEN {w.pendingTail.push} ELSE {})

\* faulty variant: the queue survives the new epoch
applyEpoch_KeepsQueue(w, epoch, contextTime) ==
  IF epoch = w.currentEpoch THEN w
  ELSE [w EXCEPT !.totalDropped = IF Available(w.ring) > 0 THEN @ + 1 ELSE @,
                 !.currentEpoch = epoch,
                 !.lastSupersedeTime =
                   IF contextTime # NoTime THEN contextTime ELSE w.currentTime,
                 !.graceAccepts = 0,
                 !.superseded = @ \cup Buffered(w)]

\* contextTime: a number, or NoTime for undefined
applyEpoch(w, epoch, contextTime) ==
  IF epoch = w.currentEpoch THEN w
  ELSE flush([w EXCEPT !.totalDropped = IF Available(w.ring) > 0 THEN @ + 1 ELSE @,
                       !.currentEpoch = epoch,
                       !.lastSupersedeTime =
                         IF contextTime # NoTime THEN contextTime ELSE w.currentTime,
                       !.graceAccepts = 0,
                       !.superseded = @ \cup Buffered(w)])

NoEpoch == 0 - 1    \* a push message without a numeric epoch

handlePushMessage(w, message) ==
  LET messageEpoch == IF message.epoch # NoEpoch THEN message.epoch ELSE w.currentEpoch
      behind == w.currentEpoch - messageEpoch
      graced == IF behind > 0
                THEN [w EXCEPT !.trimGraceAccepts = @ + 1, !.graceAccepts = @ + 1,
                               !.gracePushes = @ \cup {w.pushes}]
                ELSE w
  IN IF behind > 0 /\ ~(~w.hasPlayed /\ behind <= 1)
     THEN [w EXCEPT !.totalDropped = @ + 1]
     ELSE enqueuePcmBuffer(IF messageEpoch > w.currentEpoch
                           THEN applyEpoch(graced, messageEpoch, w.currentTime)
                           ELSE graced,
                           message, messageEpoch)

clamp(value, min, max) == Min(Max(value, min), max)

applyConfig(w, message) ==
  IF message.key = "playerInitialQueueMs"
  THEN [w EXCEPT !.initialQueueMs = clamp(message.value, 0, 1500),
                 !.minBufferSamples =
                   Max(1, MsToSamples(clamp(message.value, 0, 1500), INPUT_SAMPLE_RATE))]
  ELSE IF message.key = "playerStartLeadMs"
  THEN [w EXCEPT !.startLeadMs = clamp(message.value, 0, 600)]
  ELSE IF message.key = "playerSentencePauseMs"
  THEN [w EXCEPT !.sentencePauseMs = clamp(message.value, 0, 200),
                 !.sentencePauseSamples =
                   Max(0, MsToSamples(clamp(message.value, 0, 200), INPUT_SAMPLE_RATE))]
  ELSE IF message.key = "playerArmSupersedeQuietMs"
  THEN [w EXCEPT !.armSupersedeQuietMs = clamp(message.value, 0, 1200)]
  ELSE w

\* port.onmessage
onmessage(w, message) ==
  IF message.type = "push" THEN handlePushMessage(w, message)
  ELSE IF message.type \in {"flush", "clear", "soft_flush"} THEN flush(w)
  ELSE IF message.type = "epoch" THEN applyEpoch(w, message.epoch, message.contextTime)
  ELSE IF message.type = "config" THEN applyConfig(w, message)
  ELSE w

\* flushPendingTailIfExpired
flushPendingTailIfExpired(w) ==
  IF ~HasTail(w) \/ w.pendingTailTimestamp = NoTime THEN w
  ELSE IF (w.currentTime - w.pendingTailTimestamp) * 1000
            < PENDING_TAIL_FLUSH_MS * contextSampleRate
          /\ ~(Available(w.ring) <= BASE_CROSSFADE_SAMPLES * 2)
  THEN w
  ELSE [enqueueSamples(w, w.pendingTail) EXCEPT !.pendingTail = NoTail,
                                                 !.pendingTailTimestamp = NoTime]

\* process, lines 2159-2177: a disarmed player arms on a long enough queue
armInProcess(w) ==
  Post([w EXCEPT !.playbackArmed = TRUE,
                 !.armedQueue = Available(w.ring),
                 !.armedHasPlayed = w.hasPlayed,
                 !.pendingLeadSamples = Max(0, MsToSamples(w.startLeadMs, contextSampleRate))],
       "playback_armed")

\* process, lines 2183-2236: one frame of the output; consumeFraction is the
\* loop's `fraction`, counted in 1/contextSampleRate of an input sample
renderFrame(w) ==
  IF w.pendingLeadSamples > 0
  THEN [w EXCEPT !.pendingLeadSamples = @ - 1, !.silentFrames = @ + 1]
  ELSE IF Available(w.ring) = 0
  THEN LET w1 == [w EXCEPT !.playbackArmed = FALSE, !.consumeFraction = 0,
                           !.silentFrames = @ + 1]
       IN IF w.underrunActive THEN w1
          ELSE Post([w1 EXCEPT !.underrunActive = TRUE], "underrun")
  ELSE LET fraction == w.consumeFraction + INPUT_SAMPLE_RATE
           consumed == Min(fraction \div contextSampleRate, Available(w.ring))
           read == {Peek(w.ring, 0)} \cup
                   (IF w.consumeFraction > 0 /\ Available(w.ring) > 1
                    THEN {Peek(w.ring, 1)} ELSE {})
       IN [w EXCEPT !.underrunActive = FALSE,
                    !.rendered = @ \cup {[epoch |-> r.epoch, push |-> r.push] : r \in read},
                    !.ring = Consume(@, consumed),
                    !.consumeFraction = fraction - consumed * contextSampleRate,
                    !.hasPlayed = TRUE]

\* the frames from..to of the output (the range is walked in halves to keep
\* the evaluation shallow)
RECURSIVE renderFrames(_, _, _)
renderFrames(w, from, to) ==
  IF w.quanta < 0 \/ from > to THEN w
  ELSE IF from = to THEN renderFrame(w)
  ELSE renderFrames(renderFrames(w, from, (from + to) \div 2), (from + to) \div 2 + 1, to)

\* process, lines 2238-2244
afterFrames(w) ==
  IF Available(w.ring) = 0 THEN [w EXCEPT !.playbackArmed = FALSE, !.consumeFraction = 0]
  ELSE IF w.underrunActive THEN [w EXCEPT !.underrunActive = FALSE]
  ELSE w

renderQuantum(w) == afterFrames(renderFrames(w, 1, OutputFrames))

afterTailFlush(w) ==
  IF w.playbackArmed THEN renderQuantum(w)
  ELSE IF Available(w.ring) >= requiredForArm(w) THEN renderQuantum(armInProcess(w))
  ELSE [w EXCEPT !.silentFrames = OutputFrames]

process(w) == afterTailFlush(flushPendingTailIfExpired(w))

\* --- inputs of the player
MaxEpoch == 2           \* highest epoch an epoch message carries
MaxPushEpoch == 1       \* highest epoch a push message carries
MaxPushes == 3          \* push messages over a session
MaxEpochMessages == 1   \* epoch messages over a session
MaxFlushes == 1         \* flush and soft_flush messages over a session
MaxQuanta == 3          \* process() calls over a session
MaxArmingPushes == 2    \* push messages over a session that is configured
MaxArmingConfigs == 2   \* config messages over a session that is configured
MaxArmingQuanta == 4    \* process() calls over a session that is configured

\* push buffers: how many samples, where the first zero crossing is, and the
\* crossfade length the joint with the pending tail asks for
PushBuffers ==
  { [samples |-> 64, offset |-> 0, target |-> 0],
    [samples |-> 64, offset |-> 1, target |-> 0],
    [samples |-> 12481, offset |-> 1, target |-> 480] }

PushMessages(epochs) ==
  { [type |-> "push", epoch |-> e, samples |-> b.samples, offset |-> b.offset,
     target |-> b.target] : e \in epochs, b \in PushBuffers }

FlushMessages == { [type |-> t] : t \in {"flush", "soft_flush"} }

\* contextTime is the context's clock as the sender read it, one render
\* quantum before the worklet handles the message, or missing
EpochMessages(currentTime) ==
  { [type |-> "epoch", epoch |-> e, contextTime |-> c] :
      e \in 0..MaxEpoch, c \in {NoTime, Max(0, currentTime - OutputFrames)} }

ConfigMessages ==
  { [type |-> "config", key |-> "playerInitialQueueMs", value |-> 1],
    [type |-> "config", key |-> "playerInitialQueueMs", value |-> 1600],
    [type |-> "config", key |-> "playerArmSupersedeQuietMs", value |-> 5],
    [type |-> "config", key |-> "playerStartLeadMs", value |-> 1] }

\* the worklet at the start of a handler
Worklet == [player EXCEPT !.posted = <<>>, !.rendered = {}, !.silentFrames = 0]

PlayerBecomes(w, op) ==
  /\ player' = w
  /\ lastOp' = op
  /\ UNCHANGED <<pendingAudio, segmentedAudioQueue, pendingTexts, currentTranscript,
                 currentPartial, silenceRunSamples, committedCount, enqueuedCompleteCount,
                 partialCommittedLength, partialLastUpdatedAt, turnId, segmentSequence,
                 now, idleCommit, emitted, textOrder, audioOrder, fed, payloads, ticks,
                 proxy, client>>

Pushes(messages, limit) ==
  /\ player.pushes < limit
  /\ \E message \in messages :
       PlayerBecomes(onmessage([Worklet EXCEPT !.pushes = @ + 1, !.message = message],
                               message), "push")

Flush ==
  /\ player.flushes < MaxFlushes
  /\ \E message \in FlushMessages :
       PlayerBecomes(onmessage([Worklet EXCEPT !.flushes = @ + 1, !.message = message],
                               message), message.type)

Epoch ==
  /\ player.epochs < MaxEpochMessages
  /\ \E message \in EpochMessages(player.currentTime) :
       PlayerBecomes(onmessage([Worklet EXCEPT !.epochs = @ + 1, !.message = message],
                               message), "epoch")

Config ==
  /\ player.configs < MaxArmingConfigs
  /\ \E message \in ConfigMessages :
       PlayerBecomes(onmessage([Worklet EXCEPT !.configs = @ + 1, !.message = message],
                               message), "config")

\* one render quantum: process(), then the context's clock moves on
Renders(limit) ==
  /\ player.quanta < limit
  /\ PlayerBecomes([process([Worklet EXCEPT !.quanta = @ + 1,
                                             !.message = [type |-> "process"]])
                      EXCEPT !.currentTime = @ + OutputFrames], "process")

InitPlayer ==
  /\ pendingAudio = <<>>
  /\ segmentedAudioQueue = <<>>
  /\ pendingTexts = <<>>
  /\ currentTranscript = <<>>
  /\ currentPartial = <<>>
  /\ silenceRunSamples = 0
  /\ committedCount = 0
  /\ enqueuedCompleteCount = 0
  /\ partialCommittedLength = 0
  /\ partialLastUpdatedAt = 0
  /\ turnId = 1
  /\ segmentSequence = 0
  /\ now = NowStart
  /\ idleCommit = FALSE
  /\ emitted = <<>>
  /\ lastOp = "constructor"
  /\ textOrder = 0
  /\ audioOrder = 0
  /\ fed = <<>>
  /\ payloads = 0
  /\ ticks = 0
  /\ proxy = NoProxy
  /\ player = PlayerInit
  /\ client = NoClient

\* --- the player under pushes of several epochs, epoch and flush messages
Push == Pushes(PushMessages((0..MaxPushEpoch) \cup {NoEpoch}), MaxPushes)

Process == Renders(MaxQuanta)

NextPlayer == Push \/ Flush \/ Epoch \/ Process

SpecPlayer == InitPlayer /\ [][NextPlayer]_vars

\* --- the player under config messages: thresholds, lead and quiet window
ArmingPush == Pushes(PushMessages({NoEpoch}), MaxArmingPushes)

ArmingProcess == Renders(MaxArmingQuanta)

NextArming == Config \/ ArmingPush \/ Epoch \/ ArmingProcess

SpecArming == InitPlayer /\ [][NextArming]_vars

PlayerTypeOK ==
  /\ player.quanta \in Nat
  /\ player.consumeFraction \in 0..(contextSampleRate - 1)
  /\ Available(player.ring) <= bufferCapacity
  /\ player.pendingTail.count <= BASE_CROSSFADE_SAMPLES

\* ================================================================= player
\* the epoch of the push message the step has handled, and how far behind
\* the player's epoch it was
PushedEpoch ==
  IF player'.message.epoch # NoEpoch THEN player'.message.epoch ELSE player.currentEpoch

Behind == player.currentEpoch - PushedEpoch

\* the push has left no sample in the player and has been counted
PushDropped ==
  /\ player'.ring = player.ring
  /\ player'.pendingTail = player.pendingTail
  /\ player'.currentEpoch = player.currentEpoch
  /\ player'.totalDropped = player.totalDropped + 1
  /\ player'.trimGraceAccepts = player.trimGraceAccepts

\* the push's samples are in the player, and the grace counter has moved
PushGraced ==
  /\ player'.pushes \in Buffered(player')
  /\ player'.currentEpoch = player.currentEpoch
  /\ player'.totalDropped = player.totalDropped
  /\ player'.trimGraceAccepts = player.trimGraceAccepts + 1

\* the first two parts of C24: a push more than one epoch behind is dropped
\* and counted; a push one epoch behind is accepted exactly while hasPlayed
\* is false
C24_StalePushes ==
  [][lastOp' = "push" =>
       /\ Behind > 1 => PushDropped
       /\ (Behind = 1 /\ player.hasPlayed) => PushDropped
       /\ (Behind = 1 /\ ~player.hasPlayed) => PushGraced]_vars

\* C24: a push more than one epoch behind the player's is dropped and counted
\* in totalDropped; a push exactly one epoch behind is accepted only while
\* hasPlayed is false; and at most one push is accepted that way after the
\* epoch has changed.
C24_TrimGraceOnce ==
  [][lastOp' = "push" =>
       /\ Behind > 1 => PushDropped
       /\ (Behind = 1 /\ player.hasPlayed) => PushDropped
       /\ (Behind = 1 /\ ~PushDropped) => (~player.hasPlayed /\ player.graceAccepts = 0)]_vars

\* the runs the player holds or has just rendered
Held ==
  {[epoch |-> player.ring[i].epoch, push |-> player.ring[i].push] : i \in DOMAIN player.ring}
    \cup (IF HasTail(player)
          THEN {[epoch |-> player.pendingTail.epoch, push |-> player.pendingTail.push]}
          ELSE {})
    \cup player.rendered

C26_EpochMessage ==
  /\ [][(lastOp' = "epoch" /\ player'.message.epoch # player.currentEpoch) =>
          /\ player'.currentEpoch = player'.message.epoch
          /\ player'.ring = <<>>
          /\ player'.pendingTail = NoTail
          /\ ~player'.playbackArmed
          /\ player'.lastSupersedeTime =
               IF player'.message.contextTime # NoTime THEN player'.message.contextTime
               ELSE player.currentTime
          /\ Buffered(player) \subseteq player'.superseded]_vars
  /\ [](\A r \in player.rendered : r.push \notin player.superseded)

\* an epoch message has just discarded queued audio and a pending tail
C26_Witness ==
  /\ lastOp = "epoch"
  /\ Cardinality(player.superseded) > 1
  /\ player.totalDropped = 1
  /\ player.ring = <<>>
  /\ player.lastSupersedeTime > 0

\* C27: soft_flush drops the queued samples and leaves hasPlayed, joinCount
\* and with them the re-arm threshold as they were.
C27_SoftFlushKeepsArming ==
  [][lastOp' = "soft_flush" =>
       /\ player'.ring = <<>>
       /\ player'.hasPlayed = player.hasPlayed
       /\ player'.joinCount = player.joinCount
       /\ requiredForArm(player') = requiredForArm(player)]_vars

HasPosted(w, type) == \E i \in DOMAIN w.posted : w.posted[i] = type

TimesPosted(w, type) == Cardinality({i \in DOMAIN w.posted : w.posted[i] = type})

\* C28: playback is never armed, by a push or by a render quantum, while less
\* than armSupersedeQuietMs have passed since the last supersede.
C28_QuietAfterSupersede ==
  [][HasPosted(player', "playback_armed") =>
       ~InQuietWindow([player' EXCEPT !.currentTime = player.currentTime])]_vars

\* the part of C28 that holds: a push never arms inside the quiet window
C28_PushStaysQuiet ==
  [][(lastOp' = "push" /\ HasPosted(player', "playback_armed")) =>
       ~InQuietWindow(player')]_vars

\* the arming threshold of the sentence, in ms of queued audio
StatedThresholdMs(initialQueueMs, hasPlayed) ==
  IF hasPlayed THEN Min(initialQueueMs, REARM_MIN_MS) ELSE initialQueueMs

\* C29: whenever playback is armed the queue holds at least initialQueueMs of
\* audio before the first playback, and at least min(initialQueueMs, 80 ms)
\* when the player re-arms after having played.
C29_ArmingThreshold ==
  [][HasPosted(player', "playback_armed") =>
       player'.armedQueue * 1000
         >= StatedThresholdMs(player.initialQueueMs, player'.armedHasPlayed)
              * INPUT_SAMPLE_RATE]_vars

\* the player has re-armed after an underrun on less than initialQueueMs
C29_Witness ==
  /\ HasPosted(player, "playback_armed")
  /\ player.armedHasPlayed
  /\ player.armedQueue < player.minBufferSamples
  /\ player.armedQueue >= rearmMinSamples

\* the render quantum has read the last queued sample
QueueEmptied == lastOp' = "process" /\ player'.rendered # {} /\ Available(player'.ring) = 0

\* the render quantum wrote silence because the player, having played, had
\* run out of audio
Starved ==
  /\ lastOp' = "process"
  /\ player'.hasPlayed
  /\ Available(player'.ring) = 0
  /\ player'.silentFrames > 0

\* C30: a render quantum that empties the queue of an armed player leaves it
\* disarmed with the consume cursor at 0; the silence of a player that has run
\* out of audio is announced by an underrun event, posted once per episode:
\* never twice in a quantum, and not again before audio has been rendered.
C30_UnderrunOncePerEpisode ==
  [][/\ QueueEmptied => (~player'.playbackArmed /\ player'.consumeFraction = 0)
     /\ Starved => player'.underrunActive
     /\ TimesPosted(player', "underrun") <= 1
     /\ HasPosted(player', "underrun") =>
          (player'.underrunActive /\ (~player.underrunActive \/ player'.rendered # {}))]_vars

\* the parts of C30 that hold
C30_UnderrunAtMostOnce ==
  [][/\ QueueEmptied => (~player'.playbackArmed /\ player'.consumeFraction = 0)
     /\ TimesPosted(player', "underrun") <= 1
     /\ HasPosted(player', "underrun") =>
          /\ player'.underrunActive /\ player'.silentFrames > 0
          /\ ~player.underrunActive \/ player'.rendered # {}]_vars

\* ------------------------------------------------- the segmented audio queue
\* commitAudioSegment called when the chunk has just been added to pendingAudio
CommitAfter(chunk) == commitAudioSegment([Self EXCEPT !.pendingAudio = Append(@, chunk)])

\* C35: segmentedAudioQueue never holds more than maxPendingSegments buffers;
\* a commit made at the cap drops exactly the oldest buffer and appends the new
\* segment behind the others, whose order it keeps; below the cap it only
\* appends.
C35_QueueCapDropsOldest ==
  /\ Len(segmentedAudioQueue) <= maxPendingSegments
  /\ \A chunk \in Chunks :
       /\ Len(CommitAfter(chunk).segmentedAudioQueue) <= maxPendingSegments
       /\ CommitAfter(chunk).pendingAudio = <<>>
       /\ CommitAfter(chunk).segmentedAudioQueue =
            (IF Len(segmentedAudioQueue) = maxPendingSegments
             THEN Tail(segmentedAudioQueue) ELSE segmentedAudioQueue)
              \o <<Concat(pendingAudio) \o chunk>>

\* the queue is full and holds less audio than the turn has received, although
\* no segment has been emitted: a commit at the cap has dropped the oldest one
C35_Witness ==
  /\ lastOp = "handleUpstreamPayload"
  /\ turnId = 1
  /\ emitted = <<>>
  /\ Len(segmentedAudioQueue) = maxPendingSegments
  /\ Len(Concat(segmentedAudioQueue)) + Len(Concat(pendingAudio)) < audioOrder

\* ---------------------------------------------- specifications of one object
\* the variables of the segmenter and of the histories around it
segmenterVars ==
  <<pendingAudio, segmentedAudioQueue, pendingTexts, currentTranscript,
    currentPartial, silenceRunSamples, committedCount, enqueuedCompleteCount,
    partialCommittedLength, partialLastUpdatedAt, turnId, segmentSequence,
    idleCommit, emitted, textOrder, audioOrder, fed, payloads>>

\* no segmenter at work
InitSegmenter ==
  /\ pendingAudio = <<>>
  /\ segmentedAudioQueue = <<>>
  /\ pendingTexts = <<>>
  /\ currentTranscript = <<>>
  /\ currentPartial = <<>>
  /\ silenceRunSamples = 0
  /\ committedCount = 0
  /\ enqueuedCompleteCount = 0
  /\ partialCommittedLength = 0
  /\ partialLastUpdatedAt = 0
  /\ turnId = 1
  /\ segmentSequence = 0
  /\ idleCommit = FALSE
  /\ emitted = <<>>
  /\ textOrder = 0
  /\ audioOrder = 0
  /\ fed = <<>>
  /\ payloads = 0

\* ------------------------------------------- AdaptiveRateLimiter on its own
\* new AdaptiveRateLimiter(); calls and levelBefore are histories: the calls
\* made so far, and the level the last call found
LimiterInit == [penaltyLevel |-> 0, penaltyExpiresAt |-> 0, calls |-> 0, levelBefore |-> 0]

InitLimiter ==
  /\ InitSegmenter
  /\ now = NowStart
  /\ ticks = 0
  /\ lastOp = "constructor"
  /\ proxy = LimiterInit
  /\ player = NoPlayer
  /\ client = NoClient

LimiterBecomes(limiter, op) ==
  /\ proxy.calls < MaxLimiterCalls
  /\ proxy' = [limiter EXCEPT !.calls = @ + 1, !.levelBefore = proxy.penaltyLevel]
  /\ lastOp' = op
  /\ UNCHANGED <<segmenterVars, now, ticks, player, client>>

MarkRateLimited == LimiterBecomes(markRateLimited(proxy, now), "markRateLimited")

MarkSuccess == LimiterBecomes(markSuccess(proxy), "markSuccess")

LimiterTick ==
  /\ ticks < MaxLimiterTicks
  /\ now' = now + TickMs
  /\ ticks' = ticks + 1
  /\ UNCHANGED <<segmenterVars, lastOp, proxy, player, client>>

NextLimiter == MarkRateLimited \/ MarkSuccess \/ LimiterTick

SpecLimiter == InitLimiter /\ [][NextLimiter]_vars

\* C36: penaltyLevel stays within 0..maxPenaltyLevel under any sequence of
\* calls: markRateLimited adds 1 and stops at maxPenaltyLevel, markSuccess
\* takes 1 off and stops at 0.
C36_PenaltyLevelInRange ==
  /\ proxy.penaltyLevel \in 0..maxPenaltyLevel
  /\ lastOp = "markRateLimited" =>
       proxy.penaltyLevel = Min(proxy.levelBefore + 1, maxPenaltyLevel)
  /\ lastOp = "markSuccess" =>
       proxy.penaltyLevel = Max(proxy.levelBefore - 1, 0)

\* markRateLimited has been called at the highest level
C36_Witness ==
  /\ lastOp = "markRateLimited"
  /\ proxy.levelBefore = maxPenaltyLevel
  /\ proxy.penaltyLevel = maxPenaltyLevel

\* markSuccess has been called at level 0
C36_AtZero ==
  /\ lastOp = "markSuccess"
  /\ proxy.levelBefore = 0
  /\ proxy.penaltyLevel = 0

\* ------------------------------------------------------- the player's epoch
\* C37: the player's currentEpoch never decreases, whatever push, epoch and
\* flush messages it receives and whatever it renders.
C37_EpochNeverDecreases == [][player'.currentEpoch >= player.currentEpoch]_vars

\* the part of C37 that holds: only an epoch message lowers currentEpoch, and
\* only one that carries a lower epoch
C37_OnlyEpochMessageLowers ==
  [][player'.currentEpoch < player.currentEpoch =>
       /\ lastOp' = "epoch"
       /\ player'.message.epoch = player'.currentEpoch]_vars

\* ------------------------------------------------------ after the shutdown
\* the step has armed a timer that was not pending, or has restarted the
\* finalization timer
ArmsTimer ==
  \/ ~proxy.heartbeatTimer /\ proxy'.heartbeatTimer
  \/ ~proxy.plannedReconnectTimer /\ proxy'.plannedReconnectTimer
  \/ ~proxy.reconnectTimeout /\ proxy'.reconnectTimeout
  \/ /\ proxy'.turnFinalizationTimer # NoTimer
     /\ proxy'.turnFinalizationTimer # proxy.turnFinalizationTimer

\* C39: once shutdown has run, no event arms a timer, opens an upstream
\* connection or forwards anything to the upstream.
C39_QuietAfterShutdown ==
  [][proxy.closed =>
       /\ ~ArmsTimer
       /\ proxy'.connectAttempts = proxy.connectAttempts
       /\ proxy'.upstreamOut = proxy.upstreamOut]_vars

\* the part of C39 that holds: after the shutdown nothing connects and nothing
\* is sent upstream, and the retry timer is never armed
C39_NoConnectionAfterShutdown ==
  [][proxy.closed =>
       /\ proxy'.connectAttempts = proxy.connectAttempts
       /\ proxy'.upstreamOut = proxy.upstreamOut
       /\ ~proxy'.reconnectTimeout]_vars

\* --------------------------------------------------- one retry per failure
\* the step has handled the end of an upstream socket that asks for a retry:
\* a failed socket ("error", then "close" 1006) or a retryable close, on a
\* session that is running and has no planned reconnect under way
FailureHandled ==
  /\ lastOp' \in UpstreamCloseOps
  /\ ~proxy.closed
  /\ ~proxy.reconnectRequested
  /\ shouldRetryClose(proxy'.lastClose.code, proxy'.lastClose.reason)

\* C38: a failure of the upstream connection arms the retry timer once and
\* takes one step of the backoff, also when the socket reports the failure
\* with an error and then a close.
C38_OneRetryPerFailure ==
  [][FailureHandled =>
       /\ proxy'.reconnectTimeout
       /\ proxy'.attempt = proxy.attempt + 1]_vars

\* the part of C38 that holds: a retryable close that comes without an error
\* takes one step of the backoff, and every failure leaves the timer armed
C38_OneRetryPerClose ==
  [][FailureHandled =>
       /\ proxy'.reconnectTimeout
       /\ lastOp' = "upstream.close" => proxy'.attempt = proxy.attempt + 1]_vars

\* ------------------------------------- the session and its upstream sockets
\* connectToUpstream binds the session's handlers to every socket it creates
\* and never unbinds them, so every socket created reports its events to the
\* session, the one in this.upstream or an earlier one.  proxy.sockets is the
\* readyState of every socket created, in order of creation; this.upstream,
\* when set, is the last one, and proxy.readyState is its readyState.
\* proxy.handled says which socket's event the last step has handled (0: a
\* timer or the client), how many sockets existed then, and whether the
\* handler changed anything in the session.
Extend(r, extra) ==
  [f \in DOMAIN r \cup DOMAIN extra |-> IF f \in DOMAIN extra THEN extra[f] ELSE r[f]]

NoSocket == 0

SocketsInit ==
  Extend(ProxyInit(FALSE, TRUE),
         [sockets |-> <<>>, handled |-> [socket |-> NoSocket, created |-> 0, effect |-> FALSE]])

InitSockets ==
  /\ InitSegmenter
  /\ now = NowStart
  /\ ticks = 0
  /\ lastOp = "constructor"
  /\ proxy = SocketsInit
  /\ player = NoPlayer
  /\ client = NoClient

\* the session when socket k, now in the given readyState, reports an event
On(k, state) ==
  LET sockets == [proxy.sockets EXCEPT ![k] = state]
  IN [P EXCEPT !.sockets = sockets, !.readyState = sockets[Len(sockets)]]

\* the sockets once a handler has taken the session from p to q: close() was
\* called on this.upstream, or a socket was created
SocketsAfter(p, q) ==
  LET closing == IF q.connectAttempts = p.connectAttempts /\ q.readyState # p.readyState
                 THEN [p.sockets EXCEPT ![Len(p.sockets)] = q.readyState]
                 ELSE p.sockets
  IN IF q.connectAttempts > p.connectAttempts THEN Append(closing, "CONNECTING")
     ELSE closing

\* a handler has taken the session from p to q on an event of socket k; close
\* is the close event handled, if any
BecomesSockets(p, q, k, op, close) ==
  /\ Len(proxy.sockets) <= MaxSockets
  /\ ~proxy.crashed
  /\ BecomesProxy([(IF close = NoClose THEN q ELSE Closed(q, close))
                     EXCEPT !.sockets = SocketsAfter(p, q),
                            !.handled = [socket |-> k, created |-> Len(p.sockets),
                                         effect |-> q # p]],
                  op, <<>>)

SocketsStart ==
  /\ ~proxy.started
  /\ BecomesSockets(P, start(P), NoSocket, "start", NoClose)
  /\ UNCHANGED payloads

\* the handshake of socket k completes
SocketOpens ==
  /\ \E k \in DOMAIN proxy.sockets :
       /\ proxy.sockets[k] = "CONNECTING"
       /\ BecomesSockets(On(k, "OPEN"), onUpstreamOpen(On(k, "OPEN"), now), k, "upstream.open",
                         NoClose)
  /\ UNCHANGED payloads

\* the peer's close frame arrives on socket k: the socket is CLOSING until
\* the connection has ended, and reports "close" then; no handler runs
SocketClosing ==
  /\ \E k \in DOMAIN proxy.sockets :
       /\ proxy.sockets[k] = "OPEN"
       /\ BecomesSockets(On(k, "CLOSING"), On(k, "CLOSING"), k, "upstream.closing", NoClose)
  /\ UNCHANGED payloads

\* socket k fails: "error" with the socket closing, then "close" with 1006
SocketFails ==
  /\ \E k \in DOMAIN proxy.sockets, random \in RandomDraws :
       /\ proxy.sockets[k] \in {"CONNECTING", "OPEN"}
       /\ LET p1 == onUpstreamError(On(k, "CLOSING"), FALSE, random, now)
              p2 == [p1 EXCEPT !.sockets[k] = "CLOSED",
                               !.readyState = IF k = Len(p1.sockets) THEN "CLOSED" ELSE @]
              p3 == handleUpstreamClose(p2, 1006, <<>>, random, now)
          IN BecomesSockets(On(k, "CLOSED"), p3, k, "upstream.fail",
                            [code |-> 1006, reason |-> <<>>])
  /\ UNCHANGED payloads

\* socket k reports "close"
SocketCloses ==
  /\ \E k \in DOMAIN proxy.sockets, close \in CloseEvents, random \in RandomDraws :
       /\ proxy.sockets[k] \in {"OPEN", "CLOSING"}
       /\ BecomesSockets(On(k, "CLOSED"),
                         handleUpstreamClose(On(k, "CLOSED"), close.code, close.reason,
                                             random, now),
                         k, "upstream.close", close)
  /\ UNCHANGED payloads

\* socket k reports a goAway frame
SocketMessage ==
  /\ payloads < MaxSocketFrames
  /\ \E k \in DOMAIN proxy.sockets, message \in FramesNamed({"goAway"}) :
       /\ proxy.sockets[k] = "OPEN"
       /\ BecomesSockets(On(k, "OPEN"), handleUpstreamMessage(On(k, "OPEN"), message, now),
                         k, message.name, NoClose)
  /\ payloads' = payloads + 1

SocketsRetryTimer ==
  /\ proxy.reconnectTimeout
  /\ BecomesSockets(P, connectToUpstream([P EXCEPT !.reconnectTimeout = FALSE,
                                                   !.retryDelay = 0]),
                    NoSocket, "timer.retry", NoClose)
  /\ UNCHANGED payloads

SocketsPlannedTimer ==
  /\ proxy.plannedReconnectTimer
  /\ BecomesSockets(P, initiatePlannedReconnect([P EXCEPT !.plannedReconnectTimer = FALSE]),
                    NoSocket, "timer.planned", NoClose)
  /\ UNCHANGED payloads

SocketsClientClose ==
  /\ proxy.started
  /\ proxy.clientReadyState # "CLOSED"
  /\ BecomesSockets(P, shutdown([P EXCEPT !.clientReadyState = "CLOSED"]), NoSocket,
                    "client.close", NoClose)
  /\ UNCHANGED payloads

NextSockets ==
  \/ SocketsStart \/ SocketOpens \/ SocketClosing \/ SocketFails \/ SocketCloses
  \/ SocketMessage \/ SocketsRetryTimer \/ SocketsPlannedTimer \/ SocketsClientClose

SpecSockets == InitSockets /\ [][NextSockets]_vars

SocketsTypeOK ==
  /\ Len(proxy.sockets) = proxy.connectAttempts
  /\ proxy.sockets # <<>> => proxy.readyState = proxy.sockets[Len(proxy.sockets)]
  /\ proxy.upstream => proxy.sockets # <<>>

\* the step has created an upstream socket
SocketCreated == Len(proxy'.sockets) > Len(proxy.sockets)

\* the step has handled an event of a socket that had been replaced
EarlierSocketEvent ==
  /\ proxy'.handled.socket # NoSocket
  /\ proxy'.handled.socket < proxy'.handled.created

\* C34: the session has one upstream connection at a time: when a socket is
\* created every earlier socket is closing or closed, and an event of a socket
\* that has been replaced changes nothing in the session.
C34_OneUpstreamAtATime ==
  [][/\ SocketCreated =>
          \A k \in DOMAIN proxy.sockets : proxy'.sockets[k] \in {"CLOSING", "CLOSED"}
     /\ EarlierSocketEvent => ~proxy'.handled.effect]_vars

\* the session of several sockets when no timer fires between a peer's close
\* frame and the "close" event that follows it; C34_OneUpstreamAtATime holds
\* in it
NextOrderly == NextSockets /\ lastOp' # "upstream.closing"

SpecOrderly == InitSockets /\ [][NextOrderly]_vars

\* two sockets of the session are open at once
C34_TwoOpenSockets ==
  \E j, k \in DOMAIN proxy.sockets :
    j < k /\ proxy.sockets[j] = "OPEN" /\ proxy.sockets[k] = "OPEN" /\ ~proxy.closed

\* ------------------------------------------- lib/caption-helpers.ts, client
\* caption texts are strings over a small alphabet: " " is white space, "?"
\* the question mark and "Q" its full-width form; "k" and "a" are letters,
\* "A" the upper case of "a".  A pattern is the string a RegExp with the i
\* flag looks for anywhere in the text.
CaptionChars == {" ", "?", "Q", "k", "a", "A"}

lowerCase(s) == [i \in DOMAIN s |-> IF s[i] = "A" THEN "a" ELSE s[i]]

\* RegExp.prototype.test of /pattern/i
test(pattern, s) == Includes(lowerCase(s), lowerCase(pattern))

\* the allow list of the source is empty
CAPTION_ALLOWLIST == <<>>

\* the block list of the source holds seven phrases; here two: "ak" and "kk"
CAPTION_BLOCKLIST == << <<"a", "k">>, <<"k", "k">> >>

Matching(list, s) == {i \in DOMAIN list : test(list[i], s)}

FirstMatch(list, s) == CHOOSE i \in Matching(list, s) : \A j \in Matching(list, s) : i <= j

Rejected(reason, pattern) == [sanitized |-> Null, reason |-> reason, pattern |-> pattern]

Accepted(normalized) == [sanitized |-> normalized, reason |-> "undefined", pattern |-> 0]

\* faulty variant: the block list is consulted before the allow list
guardCaptionWith_BlockFirst(text, allowlist, blocklist) ==
  LET normalized == Trim(text) IN
  IF normalized = <<>> THEN Rejected("empty", 0)
  ELSE IF normalized = <<"?">> \/ normalized = <<"Q">> THEN Rejected("placeholder", 0)
  ELSE IF Matching(blocklist, normalized) # {}
  THEN Rejected("pattern", FirstMatch(blocklist, normalized))
  ELSE Accepted(normalized)

\* guardCaption, lines 36-53, with the two lists it reads
guardCaptionWith(text, allowlist, blocklist) ==
  LET normalized == Trim(text) IN
  IF normalized = <<>> THEN Rejected("empty", 0)
  ELSE IF normalized = <<"?">> \/ normalized = <<"Q">> THEN Rejected("placeholder", 0)
  ELSE IF Matching(allowlist, normalized) # {} THEN Accepted(normalized)
  ELSE IF Matching(blocklist, normalized) # {}
  THEN Rejected("pattern", FirstMatch(blocklist, normalized))
  ELSE Accepted(normalized)

guardCaption(text) == guardCaptionWith(text, CAPTION_ALLOWLIST, CAPTION_BLOCKLIST)

\* --- inputs: any caption text; the allow list of the source, or one pattern
Captions == StringsUpTo(CaptionChars, MaxCaptionLen)

AllowLists == {CAPTION_ALLOWLIST, << <<"k">> >>}

NoResult == [sanitized |-> Null, reason |-> "none", pattern |-> 0]

InitCaption ==
  /\ InitSegmenter
  /\ now = NowStart
  /\ ticks = 0
  /\ lastOp = "constructor"
  /\ proxy = NoProxy
  /\ player = NoPlayer
  /\ \E text \in Captions, allowlist \in AllowLists :
       client = [text |-> text, allowlist |-> allowlist, result |-> NoResult]

GuardCaption ==
  /\ lastOp = "constructor"
  /\ client' = [client EXCEPT !.result =
                  IF client.allowlist = CAPTION_ALLOWLIST THEN guardCaption(client.text)
                  ELSE guardCaptionWith(client.text, client.allowlist, CAPTION_BLOCKLIST)]
  /\ lastOp' = "guardCaption"
  /\ UNCHANGED <<segmenterVars, now, ticks, proxy, player>>

NextCaption == GuardCaption

SpecCaption == InitCaption /\ [][NextCaption]_vars

IsPlaceholder(normalized) == normalized \in {<<"?">>, <<"Q">>}

Allowed == Matching(client.allowlist, Trim(client.text)) # {}

Blocked == Matching(CAPTION_BLOCKLIST, Trim(client.text)) # {}

\* C32: guardCaption trims, rejects the empty text and the placeholders,
\* accepts what an allow-list pattern matches even if a block-list pattern
\* matches too, rejects what a block-list pattern matches, and accepts the
\* rest; whatever it accepts is the trimmed input.
C32_GuardOrder ==
  lastOp = "guardCaption" =>
    /\ client.result.sanitized # Null => client.result = Accepted(Trim(client.text))
    /\ Trim(client.text) = <<>> => client.result = Rejected("empty", 0)
    /\ IsPlaceholder(Trim(client.text)) => client.result = Rejected("placeholder", 0)
    /\ (Trim(client.text) # <<>> /\ ~IsPlaceholder(Trim(client.text))) =>
         /\ Allowed => client.result = Accepted(Trim(client.text))
         /\ (~Allowed /\ Blocked) =>
              /\ client.result.sanitized = Null
              /\ client.result.reason = "pattern"
              /\ client.result.pattern \in Matching(CAPTION_BLOCKLIST, Trim(client.text))
         /\ (~Allowed /\ ~Blocked) => client.result = Accepted(Trim(client.text))

\* a text with white space around it that both lists match has been accepted
C32_Witness ==
  /\ lastOp = "guardCaption"
  /\ Allowed
  /\ Blocked
  /\ Trim(client.text) # client.text
  /\ client.result.sanitized = Trim(client.text)

\* with the allow list of the source, a text the block list matches has been
\* rejected
C32_BlockedInSource ==
  /\ lastOp = "guardCaption"
  /\ client.allowlist = CAPTION_ALLOWLIST
  /\ Blocked
  /\ client.result.reason = "pattern"

\* ----------------------------------------- lib/transcript-store.ts, client
StoreTurnIds == 1..MaxStoreTurn

SegmentId(n) == <<"segment", n>>

FallbackId(id) == <<"fallback", id>>

SentenceIds == {SegmentId(n) : n \in 1..MaxSegmentIds} \cup {FallbackId(id) : id \in StoreTurnIds}

\* normalizeDuration, lines 185-189 (the durations here are finite)
normalizeDuration(value) == IF value < 0 THEN 0 ELSE value

\* Array.prototype.sort with (a, b) => a.index - b.index: stable
InsertByIndex(sorted, sentence) ==
  LET before == {i \in DOMAIN sorted : sorted[i].index <= sentence.index}
      k == IF before = {} THEN 0 ELSE CHOOSE i \in before : \A j \in before : j <= i
  IN SubSeq(sorted, 1, k) \o <<sentence>> \o SubSeq(sorted, k + 1, Len(sorted))

RECURSIVE SortByIndex(_)
SortByIndex(sentences) ==
  IF sentences = <<>> THEN <<>>
  ELSE InsertByIndex(SortByIndex(SubSeq(sentences, 1, Len(sentences) - 1)),
                     sentences[Len(sentences)])

NewTurn(id) == [turnId |-> id, sentences |-> <<>>, elapsedMs |-> 0, finalized |-> FALSE]

\* ensureTurn, lines 110-123
ensureTurn(store, id) ==
  IF id \in DOMAIN store.turns THEN store
  ELSE [store EXCEPT
          !.turns = [t \in DOMAIN store.turns \cup {id} |->
                       IF t = id THEN NewTurn(id) ELSE store.turns[t]],
          !.turnOrder = Append(@, id)]

\* the duration commitSegment reads from a payload, lines 18-22; an absent
\* nominalDurationMs is the empty sequence
DurationOfPayload(payload) ==
  normalizeDuration(IF payload.nominalDurationMs # <<>> THEN payload.nominalDurationMs[1]
                    ELSE payload.durationMs)

\* commitSegment, lines 16-50
commitSegment(store, payload) ==
  LET ensured == ensureTurn(store, payload.turnId)
      turn == ensured.turns[payload.turnId]
      sanitizedText == Trim(payload.text)
      sentence == [sentenceId |-> payload.segmentId, turnId |-> payload.turnId,
                   index |-> payload.index, text |-> sanitizedText,
                   startMs |-> turn.elapsedMs,
                   endMs |-> turn.elapsedMs + DurationOfPayload(payload)]
  IN IF sanitizedText = <<>> THEN ensured
     ELSE IF \E i \in DOMAIN turn.sentences : turn.sentences[i].sentenceId = payload.segmentId
     THEN ensured
     ELSE [ensured EXCEPT
             !.turns[payload.turnId] =
               [turn EXCEPT !.sentences = SortByIndex(Append(turn.sentences, sentence)),
                            !.elapsedMs = sentence.endMs,
                            !.finalized = FALSE],
             !.latestSentence = sentence]

\* finalizeTurn of the store, lines 57-76; fallbackText is trimmed
storeFinalizeTurn(store, payload) ==
  LET ensured == ensureTurn(store, payload.turnId)
      turn == ensured.turns[payload.turnId]
      fallback == Trim(payload.fallbackText)
      sentence == [sentenceId |-> FallbackId(payload.turnId), turnId |-> payload.turnId,
                   index |-> 0, text |-> fallback,
                   startMs |-> turn.elapsedMs, endMs |-> turn.elapsedMs]
  IN IF fallback # <<>> /\ turn.sentences = <<>>
     THEN [ensured EXCEPT
             !.turns[payload.turnId] = [turn EXCEPT !.finalized = TRUE,
                                                    !.sentences = <<sentence>>],
             !.latestSentence = sentence]
     ELSE [ensured EXCEPT !.turns[payload.turnId].finalized = TRUE]

\* the constructor, lines 7-9; calls, durationOf and inOrder are history:
\* the calls made, the duration each sentence of a turn was committed with, and whether
\* every sentence so far was committed with an index that is not below the
\* indices its turn already held
StoreInit ==
  [turns |-> <<>>, turnOrder |-> <<>>, latestSentence |-> Null,
   calls |-> 0, durationOf |-> [key \in StoreTurnIds \X SentenceIds |-> 0], inOrder |-> TRUE]

\* reset of the store, lines 82-87
storeReset(store) ==
  [store EXCEPT !.turns = <<>>, !.turnOrder = <<>>, !.latestSentence = Null]

SegmentPayloads ==
  [segmentId : {SegmentId(n) : n \in 1..MaxSegmentIds},
   turnId : StoreTurnIds,
   index : 0..MaxSentenceIndex,
   text : {<<"a", " ">>, <<" ">>},
   durationMs : {-5, 320},
   nominalDurationMs : {<<>>, <<640>>}]

TurnCommitPayloads == [turnId : StoreTurnIds, fallbackText : {<<>>, <<"a">>}]

InitTranscript ==
  /\ InitSegmenter
  /\ now = NowStart
  /\ ticks = 0
  /\ lastOp = "constructor"
  /\ proxy = NoProxy
  /\ player = NoPlayer
  /\ client = StoreInit

StoreBecomes(store, op) ==
  /\ client.calls < MaxStoreCalls
  /\ client' = [store EXCEPT !.calls = client.calls + 1]
  /\ lastOp' = op
  /\ UNCHANGED <<segmenterVars, now, ticks, proxy, player>>

Adds(store, payload) ==
  /\ payload.turnId \in DOMAIN store.turns
  /\ \E i \in DOMAIN store.turns[payload.turnId].sentences :
       store.turns[payload.turnId].sentences[i].sentenceId = payload.segmentId

HeldIndices(store, id) ==
  IF id \in DOMAIN store.turns
  THEN {store.turns[id].sentences[i].index : i \in DOMAIN store.turns[id].sentences}
  ELSE {}

CommitSegment ==
  \E payload \in SegmentPayloads :
    LET after == commitSegment(client, payload)
        added == Adds(after, payload) /\ ~Adds(client, payload)
    IN StoreBecomes(
         IF added
         THEN [after EXCEPT
                 !.durationOf[<<payload.turnId, payload.segmentId>>] = DurationOfPayload(payload),
                 !.inOrder = @ /\ \A held \in HeldIndices(client, payload.turnId) :
                                     held <= payload.index]
         ELSE after,
         "commitSegment")

StoreFinalizeTurn ==
  \E payload \in TurnCommitPayloads :
    LET after == storeFinalizeTurn(client, payload)
    IN StoreBecomes(
         IF after.turns[payload.turnId].sentences # <<>>
            /\ after.turns[payload.turnId].sentences[1].sentenceId = FallbackId(payload.turnId)
            /\ (payload.turnId \notin DOMAIN client.turns
                \/ client.turns[payload.turnId].sentences = <<>>)
         THEN [after EXCEPT !.durationOf[<<payload.turnId, FallbackId(payload.turnId)>>] = 0]
         ELSE after,
         "store.finalizeTurn")

StoreReset ==
  StoreBecomes([storeReset(client) EXCEPT !.inOrder = TRUE,
                                          !.durationOf = StoreInit.durationOf],
               "store.reset")

NextTranscript == CommitSegment \/ StoreFinalizeTurn \/ StoreReset

SpecTranscript == InitTranscript /\ [][NextTranscript]_vars

\* the sentences of one turn, in the order held, form a contiguous timeline
Contiguous(turn) ==
  \A i \in DOMAIN turn.sentences :
    /\ turn.sentences[i].startMs = (IF i = 1 THEN 0 ELSE turn.sentences[i - 1].endMs)
    /\ turn.sentences[i].endMs =
         turn.sentences[i].startMs
           + client.durationOf[<<turn.turnId, turn.sentences[i].sentenceId>>]

\* the store keeps each turn's sentences in index order
C33_SortedByIndex ==
  \A id \in DOMAIN client.turns :
    \A i, j \in DOMAIN client.turns[id].sentences :
      i <= j => client.turns[id].sentences[i].index <= client.turns[id].sentences[j].index

\* C33: within every turn of the TranscriptStore, in index order the first
\* sentence starts at 0, each sentence starts where the one before it ends,
\* and each ends at its start plus its duration.
C33_ContiguousTimeline ==
  \A id \in DOMAIN client.turns : Contiguous(client.turns[id])

\* as long as the sentences of a turn are committed in index order, the
\* timeline is contiguous
C33_ContiguousInOrder ==
  client.inOrder => \A id \in DOMAIN client.turns : Contiguous(client.turns[id])

\* two sentences of one turn, committed in index order, with positive durations
C33_TwoInOrder ==
  /\ client.inOrder
  /\ \E id \in DOMAIN client.turns :
       /\ Len(client.turns[id].sentences) = 2
       /\ client.turns[id].sentences[1].index < client.turns[id].sentences[2].index
       /\ client.turns[id].sentences[2].startMs > 0

\* ------------------------------------------------ lib/ws-audio.ts, client
\* LiveAudioSession: the socket's messages, the pushes to the player that are
\* waiting for the audio context or the player node, and supersedeAudio.
STREAMING_STALE_THRESHOLD_MS == 2000

playerSupersedePrefixEnabled == FALSE

\* the clock advances by the length of the window: a message arrives with the
\* one before it, at the end of its window, or after it
ClientTickMs == STREAMING_STALE_THRESHOLD_MS

ClientSegments == 1..MaxClientSegments

\* the fields of a new session, lines 457-520, after attachSocket; received,
\* posted, clips and dropped are history: the messages handled, what was
\* posted to the player node, the clips started without a player node, and
\* the pushes given up
SessionInit ==
  [audioEpoch |-> 0, playerNode |-> FALSE, playerInitFailed |-> FALSE,
   playerHasOutput |-> FALSE, binaryStreamingActive |-> FALSE,
   lastBinaryChunkAt |-> <<>>, commitModeActive |-> FALSE,
   transcript |-> StoreInit, nowMs |-> 0, ticks |-> 0,
   pending |-> <<>>, received |-> {}, posted |-> <<>>, clips |-> <<>>,
   dropped |-> <<>>]

\* pushToPlayer up to its first await, lines 1043-1045
pushToPlayer(c, segment, source) ==
  [c EXCEPT !.pending = Append(@, [segment |-> segment, source |-> source,
                                   snapshotEpoch |-> c.audioEpoch,
                                   stage |-> "context"])]

Without(s, i) == SubSeq(s, 1, i - 1) \o SubSeq(s, i + 1, Len(s))

GivenUp(c, i) ==
  [c EXCEPT !.pending = Without(@, i),
            !.dropped = Append(@, [segment |-> c.pending[i].segment,
                                   snapshotEpoch |-> c.pending[i].snapshotEpoch,
                                   current |-> c.audioEpoch,
                                   stage |-> c.pending[i].stage])]

\* pushToPlayer from the audio context to the second await, lines 1046-1073;
\* control frames are not detected and the buffers hold samples
pushToPlayerWithContext(c, i) ==
  IF c.pending[i].snapshotEpoch # c.audioEpoch THEN GivenUp(c, i)
  ELSE [c EXCEPT !.pending[i].stage = "player"]

Played(c, i) ==
  [type |-> "push", segment |-> c.pending[i].segment, source |-> c.pending[i].source,
   epoch |-> c.pending[i].snapshotEpoch, current |-> c.audioEpoch]

\* faulty variant: the epoch is not looked at again after the second await
pushToPlayerWithNode_NoSecondCheck(c, i, node) ==
  IF node
  THEN [c EXCEPT !.pending = Without(@, i), !.posted = Append(@, Played(c, i))]
  ELSE [c EXCEPT !.pending = Without(@, i), !.clips = Append(@, Played(c, i)),
                 !.playerHasOutput = TRUE]

\* pushToPlayer from the player node on, lines 1074-1091, with
\* enqueueFallbackClip, lines 2279-2335, when there is no node
pushToPlayerWithNode(c, i, node) ==
  IF c.pending[i].snapshotEpoch # c.audioEpoch THEN GivenUp(c, i)
  ELSE IF node
  THEN [c EXCEPT !.pending = Without(@, i), !.posted = Append(@, Played(c, i))]
  ELSE [c EXCEPT !.pending = Without(@, i), !.clips = Append(@, Played(c, i)),
                 !.playerHasOutput = TRUE]

\* ensurePlayerNode, lines 1204-1394: the node the session has, or a new
\* one unless creating it fails (created says whether it succeeds)
ensurePlayerNode(c, created) ==
  IF c.playerInitFailed \/ c.playerNode THEN c
  ELSE IF created THEN [c EXCEPT !.playerNode = TRUE, !.playerHasOutput = FALSE]
  ELSE [c EXCEPT !.playerInitFailed = TRUE]

\* supersedeAudio, lines 1949-2011
supersedeAudio(c, reason) ==
  LET isPrefixReason == reason \in {"prefix_changed", "terminal_revision"} IN
  IF ~playerSupersedePrefixEnabled /\ isPrefixReason THEN c
  ELSE IF ~c.playerHasOutput /\ isPrefixReason THEN c
  ELSE [c EXCEPT
          !.audioEpoch = @ + 1,
          !.posted = IF c.playerNode
                     THEN Append(@, [type |-> "epoch", segment |-> 0, source |-> reason,
                                     epoch |-> c.audioEpoch + 1,
                                     current |-> c.audioEpoch + 1])
                     ELSE @,
          !.playerHasOutput = FALSE]

\* handleMessage for a binary frame, lines 866-873
handleBinary(c, segment) ==
  pushToPlayer([c EXCEPT !.binaryStreamingActive = TRUE,
                         !.lastBinaryChunkAt = <<c.nowMs>>],
               segment, "ws")

streamingFresh(c) ==
  /\ c.binaryStreamingActive
  /\ c.lastBinaryChunkAt # <<>>
  /\ c.nowMs - c.lastBinaryChunkAt[1] <= STREAMING_STALE_THRESHOLD_MS

SegmentCommitEvent(segment) ==
  [segmentId |-> SegmentId(segment), turnId |-> 1, index |-> segment - 1,
   text |-> <<"a", " ">>, durationMs |-> 320, nominalDurationMs |-> <<>>]

\* handleSegmentCommitEvent, lines 889-954; of the caption bookkeeping only
\* commitModeActive is kept
handleSegmentCommitEvent(c, segment) ==
  LET marked == [c EXCEPT !.commitModeActive = TRUE]
      replayed ==
        IF streamingFresh(c) THEN marked
        ELSE pushToPlayer(
               IF c.binaryStreamingActive
               THEN [marked EXCEPT !.binaryStreamingActive = FALSE,
                                   !.lastBinaryChunkAt = <<>>]
               ELSE marked,
               segment, "segment_fallback")
  IN [replayed EXCEPT !.transcript = commitSegment(@, SegmentCommitEvent(segment))]

InitAudioSession ==
  /\ InitSegmenter
  /\ now = NowStart
  /\ ticks = 0
  /\ lastOp = "constructor"
  /\ proxy = NoProxy
  /\ player = NoPlayer
  /\ client = SessionInit

SessionBecomes(c, op) ==
  /\ client' = c
  /\ lastOp' = op
  /\ UNCHANGED <<segmenterVars, now, ticks, proxy, player>>

\* the socket delivers the binary frame of a segment
ReceiveBinary ==
  \E segment \in ClientSegments :
    /\ <<"binary", segment>> \notin client.received
    /\ SessionBecomes([handleBinary(client, segment) EXCEPT
                         !.received = @ \cup {<<"binary", segment>>}],
                      "handleMessage")

\* the socket delivers the SegmentCommit of a segment
ReceiveSegmentCommit ==
  \E segment \in ClientSegments :
    /\ <<"commit", segment>> \notin client.received
    /\ SessionBecomes([handleSegmentCommitEvent(client, segment) EXCEPT
                         !.received = @ \cup {<<"commit", segment>>}],
                      "handleSegmentCommitEvent")

\* ensureAudioContext settles for one waiting push
ContextSettles ==
  \E i \in DOMAIN client.pending :
    /\ client.pending[i].stage = "context"
    /\ SessionBecomes(pushToPlayerWithContext(client, i), "pushToPlayer.context")

\* ensurePlayerNode settles for one waiting push
PlayerNodeSettles ==
  \E i \in DOMAIN client.pending, created \in BOOLEAN :
    /\ client.pending[i].stage = "player"
    /\ LET ensured == ensurePlayerNode(client, created)
       IN SessionBecomes(pushToPlayerWithNode(ensured, i, ensured.playerNode),
                         "pushToPlayer.player")

Supersede ==
  \E reason \in {"barge_in", "prefix_changed"} :
    /\ client.audioEpoch < MaxSupersedes
    /\ SessionBecomes(supersedeAudio(client, reason), "supersedeAudio")

ClientTick ==
  /\ client.ticks < MaxClientTicks
  /\ SessionBecomes([client EXCEPT !.ticks = @ + 1, !.nowMs = @ + ClientTickMs], "tick")

NextAudioSession ==
  \/ ReceiveBinary
  \/ ReceiveSegmentCommit
  \/ ContextSettles
  \/ PlayerNodeSettles
  \/ Supersede
  \/ ClientTick

SpecAudioSession == InitAudioSession /\ [][NextAudioSession]_vars

\* the order the proxy sends in: the binary frame of a segment reaches the
\* client before the segment's SegmentCommit
BinaryFirst ==
  \A segment \in ClientSegments :
    <<"commit", segment>> \in client.received => <<"binary", segment>> \in client.received

NextBinaryFirst == NextAudioSession /\ BinaryFirst'

SpecBinaryFirst == InitAudioSession /\ [][NextBinaryFirst]_vars

PlaysOf(segment) ==
  Cardinality({i \in DOMAIN client.posted :
                 client.posted[i].type = "push" /\ client.posted[i].segment = segment})
  + Cardinality({i \in DOMAIN client.clips : client.clips[i].segment = segment})

\* C31: the audio of a segment that reached the client both as a binary
\* frame and in a SegmentCommit is played at most once, whichever came first.
C31_PlayedAtMostOnce ==
  \A segment \in ClientSegments :
    ({<<"binary", segment>>, <<"commit", segment>>} \subseteq client.received)
      => PlaysOf(segment) <= 1

\* a SegmentCommit handled while the binary stream is fresh starts no push
C31_FreshSkipsReplay ==
  [][(lastOp' = "handleSegmentCommitEvent" /\ streamingFresh(client))
       => client'.pending = client.pending]_vars

\* a SegmentCommit has been handled within the window of its binary frame
C31_FreshCommit ==
  /\ lastOp = "handleSegmentCommitEvent"
  /\ client.binaryStreamingActive
  /\ \E segment \in ClientSegments :
       {<<"binary", segment>>, <<"commit", segment>>} \subseteq client.received

\* C40: every push posted to the player node carries the audio epoch that is
\* current when it is posted; a push that began under an epoch since
\* superseded is given up instead.
C40_PostedAtCurrentEpoch ==
  /\ \A i \in DOMAIN client.posted : client.posted[i].epoch = client.posted[i].current
  /\ \A i \in DOMAIN client.clips : client.clips[i].epoch = client.clips[i].current
  /\ \A i \in DOMAIN client.dropped :
       client.dropped[i].snapshotEpoch < client.dropped[i].current

\* a push that had its audio context was given up at the second check, after
\* a supersede, and a later push has been posted under the new epoch
C40_Witness ==
  /\ \E i \in DOMAIN client.dropped : client.dropped[i].stage = "player"
  /\ \E i \in DOMAIN client.posted :
       client.posted[i].type = "push" /\ client.posted[i].epoch >= 1

====
